---------------------------- MODULE Spec2Model ----------------------------
(***************************************************************************)
(* PiCanvas: the tab controller of src/src/webparts/piCanvas/AddTabs.js    *)
(* ($add.Tabs: activation, keyboard handling, lazy loading, the banner     *)
(* stabiliser) and the ContentRenderer of src/unnamed/part_006.            *)
(*                                                                         *)
(* The module holds several specifications over one set of variables.      *)
(* Each starts from its own Init, which leaves the variables of the other  *)
(* parts at their idle values:                                             *)
(*   Spec          the tab state machine (one tab set, no banners)         *)
(*   SpecBanner    the DOM stabiliser of one contained-mode panel          *)
(*   SpecEmbed     ContentRenderer.renderEmbed / sanitizeEmbedUrl          *)
(*   SpecSanitize  renderMarkdown / renderHtml / renderLockTemplate        *)
(***************************************************************************)
EXTENDS Integers, Sequences, FiniteSets, TLC

VARIABLES
  \* ---- tab controller ($add.Tabs closure, AddTabs.js 226-669) ----
  n,            \* c.length = r.length: tabs and panels pair 1:1 by position
  isVertical,   \* data-tab-orientation = "vertical"
  c,            \* the tabs: i -> [cls, ariaSelected, tabindex, placeholder]
  r,            \* the panels: i -> [cls, ariaHidden, lazy, lazyLoaded, frames]
  u,            \* the active index
  focus,        \* index of the tab holding keyboard focus, -1 when none does
  firstLazy,    \* panel of the pending 0 ms lazy-load timer, -1 when none
  postTimers,   \* pending 50 ms post-activation timers: their panels, in order
  styleObservers, \* connected viewport-escape observers (each has its 2 s timer)
  \* ---- history of the tab controller ----
  last,         \* the handler that ran last: [op, idx, ret], ret what
                \* activateTab returned ("none" when it was not called)
  emitted,      \* what the listeners and callbacks of that handler observed
  lazyCount,    \* lazy-load notifications delivered per panel (saturating)
  everActive,   \* the lazy panels that have been active at some moment
  pressed,      \* the key the keydown handler got last: [key, from, steps],
                \* from the focused tab, steps the turns of its skip loop
  \* ---- ContentRenderer.renderEmbed (part_006 690-772) ----
  config,       \* the IEmbedConfig passed: [url, height, additionalDomains, defer]
  result,       \* [rendered, html]: the IRenderResult once renderEmbed returned
  \* ---- renderMarkdown / renderHtml / renderLockTemplate (part_006 532-611) ----
  markup,       \* the call: [fn, content, throws], content = [type, doc]
  sanitized,    \* [rendered, html]: the IRenderResult once the call returned
  \* ---- banner stabiliser of one contained-mode panel (AddTabs.js 42-350) ----
  layouts,      \* the fullWidthImageLayout containers of the panel: i ->
                \* [width, marginLeft, height, locked, img, listeners, rafs,
                \*  inBanner]
  panelVisible, \* the panel is displayed (container.offsetHeight > 0)
  retriesLeft,  \* staged retry timers (100, 500, 1500 ms) still to fire
  observing,    \* the panel's bannerObserver is connected
  debounceTimer, \* the observer's debounceTimer holds a timer handle
  pendingTimers, \* remaining ms of the pending debounce timers, oldest first
  \* ---- history of the banner stabiliser ----
  armedLocked,  \* the containers that were locked when the timer was last set
  hadMutation,  \* the observer has seen a qualifying mutation
  sinceMutation, \* ms since the last qualifying mutation (saturating)
  passLog,      \* sinceMutation at each observer pass since that mutation
  burst,        \* qualifying mutations seen since the timer was last idle
  notified      \* the host mutation the observer was called with last:
                \* [onLocked, armed], its target a locked container, the
                \* callback set the timer

tabVars == <<n, isVertical, c, r, u, focus, firstLazy, postTimers,
             styleObservers, last, emitted, lazyCount, everActive, pressed>>

embedVars == <<config, result>>

sanitizeVars == <<markup, sanitized>>

bannerVars == <<layouts, panelVisible, retriesLeft, observing, debounceTimer,
                pendingTimers, armedLocked, hadMutation, sinceMutation,
                passLog, burst, notified>>

VARIABLES
  \* ---- renderMermaidElement on one placeholder (part_006 650-685) ----
  mermaidEl,    \* the element: [content, id, target]: it has the encoded
                \* content, the id, the .mermaid child
  mermaidDiv,   \* the .mermaid child's innerHTML: [kind, text], kind "source",
                \* "svg" or "error", text the error text inside <pre>
  renderedClass, \* the element has the class picanvas-mermaid-rendered
  mermaidInitialized, \* ContentRenderer.mermaidInitialized
  calls,        \* the calls of renderMermaidElement: k -> "idle", "awaiting"
                \* (at the await of line 669), "resolved" or "rejected"
  engineCalls,  \* calls of mermaid.render so far
  engineOutputs \* svg results mermaid.render has resolved with so far

mermaidVars == <<mermaidEl, mermaidDiv, renderedClass, mermaidInitialized, calls, engineCalls, engineOutputs>>

VARIABLES
  landingDom,       \* what the container holds: snake path, timeline, observed elements
  reducedMotion,    \* matchMedia('(prefers-reduced-motion: reduce)').matches
  scrollListeners,  \* handleScroll closures attached to window, named by the init call that made them
  connected,        \* intersection observers that observe an element, <<init call, "fade" | "toggle">>
  landingCleanup,   \* container._landingCleanup: what the stored closure removes, or NoCleanup
  inits,            \* number of initLandingAnimations calls so far
  landingLast       \* the last call and whether it found a cleanup handle

landingVars == <<landingDom, reducedMotion, scrollListeners, connected, landingCleanup, inits, landingLast>>

VARIABLES
  idInput,          \* the elementId handed to makeCssSafeId
  idOutput,         \* [made, value]: the identifier it returned
  idAgain           \* [made, value]: what it returned for that identifier

idVars == <<idInput, idOutput, idAgain>>

VARIABLES
  rssDate,          \* the publishedDate argument of formatRssDate
  rssNow,           \* what new Date().getTime() returns during the call
  rssFormat,        \* the format argument
  rssText           \* [made, text]: what formatRssDate returned

dateVars == <<rssDate, rssNow, rssFormat, rssText>>

VARIABLES
  rssItems,         \* the items argument of renderRss: [kind, list]
  rssConfig,        \* the config argument of renderRss: [kind, ...fields]
  rssResult         \* [made, threw, html]: how the call ended

rssVars == <<rssItems, rssConfig, rssResult>>

VARIABLES
  fileSource,          \* the URL of the external file: [type, value]
  fileContent,      \* the content fetched from it, as the markup functions take it
  fileThrows,       \* whether a library call raises inside the pipeline
  fileResult        \* [made, fileType, pipeline, html]: what was rendered

fileVars == <<fileSource, fileContent, fileThrows, fileResult>>

VARIABLES
  renderCall,       \* a call of a public render function: [fn, payload, cfg, throws]
  renderOutcome     \* [made, threw, kind]: how it ended and what its html is

renderVars == <<renderCall, renderOutcome>>

VARIABLES
  stagedTimers,  \* delays (ms) of the staged retries still to fire, in order
  stagedRan      \* the corrective passes of construction that have run

stagedVars == <<stagedTimers, stagedRan>>

vars == <<tabVars, embedVars, sanitizeVars, bannerVars, mermaidVars, landingVars, idVars, dateVars, rssVars, fileVars, renderVars, stagedVars>>

\* What a specification leaves alone when it is about another part.
nonTabVars == <<embedVars, sanitizeVars, bannerVars, mermaidVars, landingVars, idVars, dateVars, rssVars, fileVars, renderVars, stagedVars>>
nonEmbedVars == <<tabVars, sanitizeVars, bannerVars, mermaidVars, landingVars, idVars, dateVars, rssVars, fileVars, renderVars, stagedVars>>
nonSanitizeVars == <<tabVars, embedVars, bannerVars, mermaidVars, landingVars, idVars, dateVars, rssVars, fileVars, renderVars, stagedVars>>
nonBannerVars == <<tabVars, embedVars, sanitizeVars, mermaidVars, landingVars, idVars, dateVars, rssVars, fileVars, renderVars, stagedVars>>
nonMermaidVars == <<tabVars, embedVars, sanitizeVars, bannerVars, landingVars, idVars, dateVars, rssVars, fileVars, renderVars, stagedVars>>
nonLandingVars == <<tabVars, embedVars, sanitizeVars, bannerVars, mermaidVars, idVars, dateVars, rssVars, fileVars, renderVars, stagedVars>>
nonIdVars == <<tabVars, embedVars, sanitizeVars, bannerVars, mermaidVars, landingVars, dateVars, rssVars, fileVars, renderVars, stagedVars>>
nonDateVars == <<tabVars, embedVars, sanitizeVars, bannerVars, mermaidVars, landingVars, idVars, rssVars, fileVars, renderVars, stagedVars>>
nonRssVars == <<tabVars, embedVars, sanitizeVars, bannerVars, mermaidVars, landingVars, idVars, dateVars, fileVars, renderVars, stagedVars>>
nonFileVars == <<tabVars, embedVars, sanitizeVars, bannerVars, mermaidVars, landingVars, idVars, dateVars, rssVars, renderVars, stagedVars>>
nonRenderVars == <<tabVars, embedVars, sanitizeVars, bannerVars, mermaidVars, landingVars, idVars, dateVars, rssVars, fileVars, stagedVars>>
nonStagedVars == <<tabVars, embedVars, sanitizeVars, bannerVars, mermaidVars, landingVars, idVars, dateVars, rssVars, fileVars, renderVars>>

-----------------------------------------------------------------------------
(* Bounds *)

MaxTabs == 2
MaxPending == 2
MaxCount == 2

Tabs == 0 .. (n - 1)

Min(a, b) == IF a < b THEN a ELSE b

RECURSIVE SetMax(_)
SetMax(S) == LET x == CHOOSE y \in S : TRUE
             IN IF S = {x} THEN x
                ELSE LET m == SetMax(S \ {x}) IN IF x > m THEN x ELSE m

-----------------------------------------------------------------------------
(* Idle values: the variables of a part no specification at hand is about *)

TabIdle ==
  /\ n = 0 /\ isVertical = FALSE /\ c = <<>> /\ r = <<>> /\ u = 0
  /\ focus = -1 /\ firstLazy = -1 /\ postTimers = <<>> /\ styleObservers = 0
  /\ last = [op |-> "idle", idx |-> -1, ret |-> "none"]
  /\ emitted = <<>> /\ lazyCount = <<>> /\ everActive = {}
  /\ pressed = [key |-> "", from |-> -1, steps |-> 0]

EmbedIdle ==
  /\ config = [url |-> [type |-> "undefined", value |-> ""], height |-> "",
               additionalDomains |-> <<>>, defer |-> FALSE]
  /\ result = [rendered |-> FALSE, html |-> <<>>]

SanitizeIdle ==
  /\ markup = [fn |-> "none", content |-> [type |-> "undefined", doc |-> <<>>],
               throws |-> FALSE]
  /\ sanitized = [rendered |-> FALSE, html |-> <<>>]

BannerIdle ==
  /\ layouts = <<>> /\ panelVisible = FALSE /\ retriesLeft = 0
  /\ observing = FALSE
  /\ debounceTimer = FALSE /\ pendingTimers = <<>> /\ armedLocked = {}
  /\ hadMutation = FALSE /\ sinceMutation = 0 /\ passLog = <<>> /\ burst = 0
  /\ notified = [onLocked |-> FALSE, armed |-> FALSE]

MermaidIdle ==
  /\ mermaidEl = [content |-> FALSE, id |-> FALSE, target |-> FALSE]
  /\ mermaidDiv = [kind |-> "source", text |-> ""]
  /\ renderedClass = FALSE /\ mermaidInitialized = FALSE
  /\ calls = <<>> /\ engineCalls = 0 /\ engineOutputs = 0

LandingIdle ==
  /\ landingDom = [snake |-> FALSE, timeline |-> FALSE, fade |-> FALSE, toggle |-> FALSE]
  /\ reducedMotion = FALSE
  /\ scrollListeners = {} /\ connected = {}
  /\ landingCleanup = [set |-> FALSE, listeners |-> {}, observers |-> {}]
  /\ inits = 0 /\ landingLast = "none"

IdIdle ==
  /\ idInput = ""
  /\ idOutput = [made |-> FALSE, value |-> ""]
  /\ idAgain = [made |-> FALSE, value |-> ""]

DateIdle ==
  /\ rssDate = [kind |-> "null", time |-> [min |-> 0, ms |-> 0], date |-> 0,
                month |-> 0, year |-> 0]
  /\ rssNow = [min |-> 0, ms |-> 0] /\ rssFormat = ""
  /\ rssText = [made |-> FALSE, text |-> ""]

RssIdle ==
  /\ rssItems = [kind |-> "undefined", list |-> <<>>]
  /\ rssConfig = [kind |-> "undefined"]
  /\ rssResult = [made |-> FALSE, threw |-> FALSE, html |-> <<>>]

FileIdle ==
  /\ fileSource = [type |-> "undefined", value |-> ""]
  /\ fileContent = [type |-> "undefined", doc |-> <<>>]
  /\ fileThrows = FALSE
  /\ fileResult = [made |-> FALSE, fileType |-> "", pipeline |-> "", html |-> <<>>]

RenderIdle ==
  /\ renderCall = [fn |-> "", payload |-> "undefined", cfg |-> "undefined", throws |-> FALSE]
  /\ renderOutcome = [made |-> FALSE, threw |-> FALSE, kind |-> ""]

StagedIdle ==
  /\ stagedTimers = <<>> /\ stagedRan = <<>>

-----------------------------------------------------------------------------
(* The tab controller *)

NoKey == [key |-> "", from |-> -1, steps |-> 0]

Keys == {"ArrowRight", "ArrowLeft", "ArrowDown", "ArrowUp",
         "Home", "End", "Enter", " ", "Escape"}

\* AddTabs.js 239-247: u starts at 0 and every panel of the markup carrying
\* the class "active" overwrites it, so the last one wins.
InitialIndex(markupActive) ==
  IF markupActive = {} THEN 0 ELSE SetMax(markupActive)

\* What a listener or callback can read off the tabs and panels: the four
\* markers of "active" all name exactly the index idx.
Agree(cc, rr, idx) ==
  /\ {i \in DOMAIN rr : rr[i].cls} = {idx}
  /\ {i \in DOMAIN rr : ~rr[i].ariaHidden} = {idx}
  /\ {i \in DOMAIN cc : cc[i].cls} = {idx}
  /\ {i \in DOMAIN cc : cc[i].ariaSelected} = {idx}
  /\ {i \in DOMAIN cc : cc[i].tabindex = 0} = {idx}

\* activateTab, line 419: the guard on data-placeholder.
IsPlaceholderNever(cc, i) == FALSE
IsPlaceholder(cc, i) == cc[i].placeholder

\* activateTab, lines 424-425: every panel loses the class and is hidden,
\* then the new one gets the class and loses aria-hidden.
UpdatePanelsKeepOld(rr, newIndex) ==
  [i \in DOMAIN rr |->
     IF i = newIndex THEN [rr[i] EXCEPT !.cls = TRUE, !.ariaHidden = FALSE]
     ELSE [rr[i] EXCEPT !.cls = FALSE]]
UpdatePanels(rr, newIndex) ==
  [i \in DOMAIN rr |->
     [rr[i] EXCEPT !.cls = (i = newIndex), !.ariaHidden = (i # newIndex)]]

\* activateTab, lines 427-432.
UpdateTabs(cc, newIndex) ==
  [i \in DOMAIN cc |->
     [cc[i] EXCEPT !.cls = (i = newIndex),
                   !.ariaSelected = (i = newIndex),
                   !.tabindex = IF i = newIndex THEN 0 ELSE -1]]

\* activateTab, lines 452-456: every iframe of the panel that has data-src
\* gets it as src and loses it.  A frame is [src, dataSrc, was]; "" is an
\* absent attribute and was records the data-src the renderer emitted.
PromoteFrames(frames) ==
  [k \in DOMAIN frames |->
     IF frames[k].dataSrc # ""
     THEN [frames[k] EXCEPT !.src = frames[k].dataSrc, !.dataSrc = ""]
     ELSE frames[k]]

\* activateTab, line 444.
NeedsLazyLoadAlways(rr, i) == rr[i].lazy
NeedsLazyLoad(rr, i) == rr[i].lazy /\ ~rr[i].lazyLoaded

\* The tabs and panels as they stand when activateTab calls trigger() (lines
\* 449 and 460): jQuery runs the listeners inside the call, and both calls
\* come after the updates of lines 424-434. before/after are the tabs and
\* panels at entry and after the updates.
TriggerViewStale(before, after) == before
TriggerView(before, after) == after

Event(type, panel, tabIndex, view, idx) ==
  [type |-> type, panel |-> panel, tabIndex |-> tabIndex,
   agree |-> Agree(view.c, view.r, idx), tab |-> -1]

\* activateTab, lines 449 and 460: the calls of trigger() in the order the
\* function makes them.
TriggersChangeFirst(evLazy, evChange) == evChange \o evLazy
Triggers(evLazy, evChange) == evLazy \o evChange

\* activateTab(newIndex, focusTab), lines 416-537: the outcome of one call
\* made with tabs cc, panels rr, active index uu and focus ff.
ActivateTab(cc, rr, uu, ff, newIndex, focusTab) ==
  IF IsPlaceholder(cc, newIndex)
  THEN [ret |-> "false", c |-> cc, r |-> rr, u |-> uu, focus |-> ff,
        events |-> <<>>, timers |-> <<>>]
  ELSE
    LET r1 == UpdatePanels(rr, newIndex)
        c1 == UpdateTabs(cc, newIndex)
        f1 == IF focusTab THEN newIndex ELSE ff
        needs == NeedsLazyLoad(r1, newIndex)
        r2 == IF needs
              THEN [r1 EXCEPT ![newIndex].lazyLoaded = TRUE,
                              ![newIndex].frames = PromoteFrames(@)]
              ELSE r1
        view == TriggerView([c |-> cc, r |-> rr], [c |-> c1, r |-> r2])
        evLazy == IF needs
                  THEN <<Event("lazy-load", newIndex, newIndex, view, newIndex)>>
                  ELSE <<>>
        evChange == <<[Event("tab-change", newIndex, newIndex, view, newIndex)
                         EXCEPT !.tab = newIndex]>>
    IN [ret |-> "true", c |-> c1, r |-> r2, u |-> newIndex, focus |-> f1,
        events |-> Triggers(evLazy, evChange), timers |-> <<newIndex>>]

\* The lazy-load notifications among evs, added to the per-panel counts.
RECURSIVE CountLazy(_, _)
CountLazy(cnt, evs) ==
  IF evs = <<>> THEN cnt
  ELSE LET e == Head(evs)
           c1 == IF e.type = "lazy-load"
                 THEN [cnt EXCEPT ![e.panel] = Min(MaxCount, @ + 1)]
                 ELSE cnt
       IN CountLazy(c1, Tail(evs))

\* A tab set whose panels hold no iframe.
NoContent(nTabs) == [i \in 0 .. (nTabs - 1) |-> <<>>]

\* $add.Tabs(d, s), lines 226-669, for one tab set whose markup has nTabs
\* tab/panel pairs, the given data-placeholder and data-lazy flags and the
\* class "active" on the panels of markupActive; content[i] are the iframes
\* of panel i.
Construct(nTabs, vertical, placeholders, lazies, markupActive, content) ==
  LET u0 == InitialIndex(markupActive)
      idx == 0 .. (nTabs - 1)
  IN /\ n = nTabs
     /\ isVertical = vertical
     /\ u = u0
     /\ c = [i \in idx |-> [cls |-> (i = u0), ariaSelected |-> (i = u0),
                            tabindex |-> IF i = u0 THEN 0 ELSE -1,
                            placeholder |-> (i \in placeholders)]]
     /\ r = [i \in idx |-> [cls |-> (i = u0), ariaHidden |-> (i # u0),
                            lazy |-> (i \in lazies),
                            lazyLoaded |-> (i = u0 /\ i \in lazies),
                            frames |-> content[i]]]
     /\ focus = -1
     /\ firstLazy = IF u0 \in lazies THEN u0 ELSE -1
     /\ postTimers = <<>>
     /\ styleObservers = 0
     /\ last = [op |-> "init", idx |-> u0, ret |-> "none"]
     /\ emitted = <<>>
     /\ lazyCount = [i \in idx |-> 0]
     /\ everActive = {u0} \cap lazies
     /\ pressed = NoKey

Init ==
  /\ \E nTabs \in 1 .. MaxTabs, vertical \in BOOLEAN :
       \E placeholders \in SUBSET (0 .. (nTabs - 1)),
          lazies \in SUBSET (0 .. (nTabs - 1)),
          markupActive \in SUBSET (0 .. (nTabs - 1)) :
         Construct(nTabs, vertical, placeholders, lazies, markupActive,
                   NoContent(nTabs))
  /\ EmbedIdle
  /\ SanitizeIdle
  /\ BannerIdle
  /\ MermaidIdle
  /\ LandingIdle
  /\ IdIdle
  /\ DateIdle
  /\ RssIdle
  /\ FileIdle
  /\ RenderIdle
  /\ StagedIdle

\* The state left by a handler that called activateTab with result res.
Apply(op, idx, res) ==
  /\ c' = res.c
  /\ r' = res.r
  /\ u' = res.u
  /\ focus' = res.focus
  /\ postTimers' = postTimers \o res.timers
  /\ last' = [op |-> op, idx |-> idx, ret |-> res.ret]
  /\ emitted' = res.events
  /\ lazyCount' = CountLazy(lazyCount, res.events)
  /\ everActive' = everActive \cup {i \in {res.u} : r[i].lazy}
  /\ UNCHANGED <<n, isVertical, firstLazy, styleObservers>>
  /\ UNCHANGED nonTabVars

\* A handler that returned without calling activateTab.
Skip(op, idx) ==
  /\ last' = [op |-> op, idx |-> idx, ret |-> "none"]
  /\ emitted' = <<>>
  /\ UNCHANGED <<n, isVertical, c, r, u, focus, firstLazy, postTimers,
                 styleObservers, lazyCount, everActive>>
  /\ UNCHANGED nonTabVars

\* Room for the timer and the observer one more activation brings.
Room == Len(postTimers) + styleObservers < MaxPending

\* The click (or mouseenter) handler, lines 545-556, for a click on tab i.
Click(i) ==
  /\ Room
  /\ IF i >= 0 /\ i # u
     THEN Apply("click", i, ActivateTab(c, r, u, focus, i, FALSE))
     ELSE Skip("click", i)
  /\ pressed' = NoKey

\* The user moves keyboard focus to tab i (Tab key, pointer).
UserFocus(i) ==
  /\ focus # i
  /\ focus' = i
  /\ last' = [op |-> "focus", idx |-> i, ret |-> "none"]
  /\ emitted' = <<>>
  /\ UNCHANGED <<n, isVertical, c, r, u, firstLazy, postTimers,
                 styleObservers, lazyCount, everActive>>
  /\ pressed' = NoKey
  /\ UNCHANGED nonTabVars

NextKeyHorizontal == "ArrowRight"
NextKey == IF isVertical THEN "ArrowDown" ELSE "ArrowRight"
PrevKey == IF isVertical THEN "ArrowUp" ELSE "ArrowLeft"

\* The loop of lines 614-622.
RECURSIVE SkipPlaceholders(_, _, _, _)
SkipPlaceholders(cc, newIndex, attempts, key) ==
  LET tabCount == Cardinality(DOMAIN cc)
  IN IF cc[newIndex].placeholder /\ attempts < tabCount
     THEN SkipPlaceholders(
            cc,
            IF key = NextKey \/ key = "End"
            THEN (newIndex + 1) % tabCount
            ELSE (newIndex - 1 + tabCount) % tabCount,
            attempts + 1, key)
     ELSE newIndex

\* The turns that loop takes.
RECURSIVE SkipAttempts(_, _, _, _)
SkipAttempts(cc, newIndex, attempts, key) ==
  LET tabCount == Cardinality(DOMAIN cc)
  IN IF cc[newIndex].placeholder /\ attempts < tabCount
     THEN SkipAttempts(
            cc,
            IF key = NextKey \/ key = "End"
            THEN (newIndex + 1) % tabCount
            ELSE (newIndex - 1 + tabCount) % tabCount,
            attempts + 1, key)
     ELSE attempts

\* Lines 578-600: where the key points before placeholders are skipped.
KeyTarget(key, currentIndex, tabCount) ==
  CASE key = NextKey -> (currentIndex + 1) % tabCount
    [] key = PrevKey -> (currentIndex - 1 + tabCount) % tabCount
    [] key = "Home" -> 0
    [] OTHER -> tabCount - 1

\* The keydown handler, lines 567-627, for key pressed on the focused tab.
Key(key) ==
  /\ Room
  /\ focus \in Tabs
  /\ LET currentIndex == focus
         tabCount == n
     IN CASE key \in {"Enter", " "} ->
               Apply("key", currentIndex,
                     ActivateTab(c, r, u, focus, currentIndex, FALSE))
          [] key \in {NextKey, PrevKey, "Home", "End"} ->
               LET start == KeyTarget(key, currentIndex, tabCount)
                   newIndex == SkipPlaceholders(c, start, 0, key)
               IN IF newIndex # currentIndex
                  THEN Apply("key", newIndex,
                             ActivateTab(c, r, u, focus, newIndex, TRUE))
                  ELSE Skip("key", newIndex)
          [] OTHER -> Skip("key", currentIndex)
  /\ pressed' =
       [key |-> key, from |-> focus,
        steps |-> IF key \in {NextKey, PrevKey, "Home", "End"}
                  THEN SkipAttempts(c, KeyTarget(key, focus, n), 0, key)
                  ELSE 0]

\* The function stored as data "picanvas-activate-tab", lines 632-636.
ActivateByIndex(index) ==
  /\ Room
  /\ IF index >= 0 /\ index < n
     THEN Apply("api", index, ActivateTab(c, r, u, focus, index, FALSE))
     ELSE Skip("api", index)
  /\ pressed' = NoKey

\* The 0 ms timer of lines 655-657: the notification goes to $firstPanel and
\* carries the value u has when the timer fires.
FirstLazyFire ==
  /\ firstLazy # -1
  /\ firstLazy' = -1
  /\ last' = [op |-> "timer0", idx |-> firstLazy, ret |-> "none"]
  /\ emitted' = <<Event("lazy-load", firstLazy, u, [c |-> c, r |-> r], u)>>
  /\ lazyCount' = CountLazy(lazyCount, emitted')
  /\ UNCHANGED <<n, isVertical, c, r, u, focus, postTimers, styleObservers,
                 everActive>>
  /\ pressed' = NoKey
  /\ UNCHANGED nonTabVars

\* The panel the 50 ms timer works on: $panel, which the closure of line 472
\* captured at line 436 of the call that set the timer (not the panel that
\* is active when the timer fires).
TimerPanelCurrent(timers, uu) == uu
TimerPanel(timers, uu) == Head(timers)

\* The 50 ms timer of lines 472-534: a corrective pass on the panel the
\* activation captured, a new style observer and its 2 s disconnect timer.
PostTimerFire ==
  /\ postTimers # <<>>
  /\ postTimers' = Tail(postTimers)
  /\ styleObservers' = styleObservers + 1
  /\ last' = [op |-> "timer50", idx |-> TimerPanel(postTimers, u),
              ret |-> "none"]
  /\ emitted' = <<Event("timer", TimerPanel(postTimers, u), u,
                        [c |-> c, r |-> r], u)>>
  /\ UNCHANGED <<n, isVertical, c, r, u, focus, firstLazy, lazyCount,
                 everActive>>
  /\ pressed' = NoKey
  /\ UNCHANGED nonTabVars

\* The 2 s timer of line 516.
DisconnectFire ==
  /\ styleObservers > 0
  /\ styleObservers' = styleObservers - 1
  /\ last' = [op |-> "timer2000", idx |-> -1, ret |-> "none"]
  /\ emitted' = <<>>
  /\ UNCHANGED <<n, isVertical, c, r, u, focus, firstLazy, postTimers,
                 lazyCount, everActive>>
  /\ pressed' = NoKey
  /\ UNCHANGED nonTabVars

Next ==
  \/ \E i \in Tabs : Click(i)
  \/ \E i \in Tabs : UserFocus(i)
  \/ \E key \in Keys : Key(key)
  \/ \E index \in -1 .. n : ActivateByIndex(index)
  \/ FirstLazyFire
  \/ PostTimerFire
  \/ DisconnectFire

Spec == Init /\ [][Next]_vars

(***************************************************************************)
(* SpecKeys: the same tab set with up to MaxKeyTabs tabs and no lazy       *)
(* panel, for the keyboard handler.                                        *)
(***************************************************************************)

MaxKeyTabs == 3

InitKeys ==
  /\ \E nTabs \in 1 .. MaxKeyTabs, vertical \in BOOLEAN :
       \E placeholders \in SUBSET (0 .. (nTabs - 1)),
          markupActive \in SUBSET (0 .. (nTabs - 1)) :
         Construct(nTabs, vertical, placeholders, {}, markupActive,
                   NoContent(nTabs))
  /\ EmbedIdle
  /\ SanitizeIdle
  /\ BannerIdle
  /\ MermaidIdle
  /\ LandingIdle
  /\ IdIdle
  /\ DateIdle
  /\ RssIdle
  /\ FileIdle
  /\ RenderIdle
  /\ StagedIdle

NextKeys ==
  \/ \E i \in Tabs : Click(i)
  \/ \E i \in Tabs : UserFocus(i)
  \/ \E key \in Keys : Key(key)
  \/ \E index \in -1 .. n : ActivateByIndex(index)
  \/ PostTimerFire
  \/ DisconnectFire

SpecKeys == InitKeys /\ [][NextKeys]_vars

-----------------------------------------------------------------------------
(* Claims about the tab state machine, checked under Spec *)

StateOps == {"click", "key", "api"}

\* C1: in every reachable state exactly one panel is active, the tab with
\* aria-selected = true is the tab at the active index, and the panel at
\* that index is the only panel without aria-hidden = true.
C1_ExactlyOneActive ==
  /\ u \in Tabs
  /\ Cardinality({i \in Tabs : r[i].cls}) = 1
  /\ r[u].cls
  /\ \A i \in Tabs : c[i].ariaSelected <=> (i = u)
  /\ \A i \in Tabs : (~r[i].ariaHidden) <=> (i = u)

\* A key press has just moved the active index to another tab.
C1_Witness ==
  /\ last.op = "key" /\ last.ret = "true"
  /\ u = last.idx /\ focus = u
  /\ \E i \in Tabs : i # u /\ i \in everActive

\* C2: a call of activateTab on a placeholder tab returns false and changes
\* nothing: not the active index, no class, aria-selected, tabindex,
\* aria-hidden or data-lazy-loaded; it notifies nobody and schedules no timer.
C2_PlaceholderRejected ==
  [][ (/\ last'.op \in StateOps
       /\ last'.ret # "none"
       /\ last'.idx \in Tabs
       /\ c[last'.idx].placeholder)
      => (/\ last'.ret = "false"
          /\ emitted' = <<>>
          /\ UNCHANGED <<c, r, u, focus, firstLazy, postTimers,
                         styleObservers, lazyCount, everActive>>) ]_vars

\* activateTab has just refused a placeholder tab that is not the active one.
C2_Witness ==
  /\ last.op \in StateOps /\ last.ret = "false"
  /\ last.idx \in Tabs
  /\ c[last.idx].placeholder /\ last.idx # u

\* C3: activating the index that is already active changes nothing and
\* notifies nobody, on every path (click, Enter/Space, activate-by-index).
C3_ReactivationNoOp ==
  [][ (last'.op \in StateOps /\ last'.idx = u)
      => (/\ emitted' = <<>>
          /\ UNCHANGED <<c, r, u, focus, firstLazy, postTimers,
                         styleObservers, lazyCount, everActive>>) ]_vars

\* C4: a lazy panel is marked loaded exactly from its first activation on (the
\* initially active one from construction on) and never unmarked; its
\* lazy-load notification is delivered once, and none goes to a panel that is
\* not lazy.
C4_LazyLoadedOnce ==
  \A i \in Tabs :
    /\ r[i].lazy => (r[i].lazyLoaded <=> i \in everActive)
    /\ ~r[i].lazy => (~r[i].lazyLoaded /\ lazyCount[i] = 0)
    /\ lazyCount[i] <= 1
    /\ lazyCount[i] = 1 => r[i].lazyLoaded
    /\ (r[i].lazy /\ r[i].lazyLoaded /\ lazyCount[i] = 0) => firstLazy = i

\* A lazy panel that was loaded earlier has just been activated again, and
\* another lazy panel has never been active.
C4_Witness ==
  /\ last.ret = "true" /\ last.idx \in Tabs
  /\ r[last.idx].lazy /\ lazyCount[last.idx] = 1
  /\ \A k \in DOMAIN emitted : emitted[k].type # "lazy-load"
  /\ \E i \in Tabs : r[i].lazy /\ ~r[i].lazyLoaded /\ lazyCount[i] = 0

\* C10: every lazy-load and tab-change listener, and every timer callback,
\* finds tabs and panels that agree on the active index: activateTab has
\* updated index, classes, aria-selected, tabindex and aria-hidden before it
\* notifies or schedules.
C10_UpdatesBeforeNotifications ==
  \A k \in DOMAIN emitted : emitted[k].agree

\* One call has delivered a lazy-load and then a tab-change notification for
\* an index that was not the active one before.
C10_Witness ==
  /\ Len(emitted) = 2
  /\ emitted[1].type = "lazy-load" /\ emitted[2].type = "tab-change"
  /\ emitted[2].tabIndex = u
  /\ \E i \in Tabs : i # u /\ i \in everActive

-----------------------------------------------------------------------------
(* Claims about the keyboard handler, checked under SpecKeys *)

NavKeys == {NextKey, PrevKey, "Home", "End"}

OpenTabs == {i \in Tabs : ~c[i].placeholder}

\* C11: an arrow, Home or End key takes at most tabCount turns of the skip
\* loop; afterwards the active tab is not a placeholder, and when every tab
\* is a placeholder the active index is the one it was.
C11_KeySkipsPlaceholders ==
  [][pressed'.key \in NavKeys =>
       /\ pressed'.steps <= n
       /\ OpenTabs # {} => ~c'[u'].placeholder
       /\ OpenTabs = {} => u' = u]_vars

\* C12: with no placeholder among the tabs, the forward arrow on focused tab
\* i activates and focuses tab (i+1) mod n and the backward arrow tab
\* (i-1+n) mod n; the arrows of the other axis change neither.
C12_ArrowsWrap ==
  [][LET forward == IF isVertical THEN "ArrowDown" ELSE "ArrowRight"
         backward == IF isVertical THEN "ArrowUp" ELSE "ArrowLeft"
     IN OpenTabs = Tabs =>
          /\ pressed'.key = forward =>
               /\ u' = (focus + 1) % n /\ focus' = u'
               /\ c'[u'].ariaSelected /\ ~r'[u'].ariaHidden
          /\ pressed'.key = backward =>
               /\ u' = (focus - 1 + n) % n /\ focus' = u'
               /\ c'[u'].ariaSelected /\ ~r'[u'].ariaHidden
          /\ pressed'.key \in {"ArrowRight", "ArrowLeft", "ArrowDown", "ArrowUp"}
                               \ {forward, backward} =>
               u' = u /\ focus' = focus]_vars

\* ArrowDown on the last of three tabs of a vertical tab set has made tab 0
\* active and focused.
C12_Witness ==
  /\ n = 3 /\ isVertical /\ OpenTabs = Tabs
  /\ pressed = [key |-> "ArrowDown", from |-> 2, steps |-> 0]
  /\ u = 0 /\ focus = 0 /\ last.ret = "true"

\* C13: after Home the active tab is the lowest tab that is not a
\* placeholder, after End the highest, whichever tab had focus.
C13_HomeEndJump ==
  [][OpenTabs # {} =>
       /\ pressed'.key = "Home" => \A i \in OpenTabs : u' <= i
       /\ pressed'.key = "End" => \A i \in OpenTabs : u' >= i]_vars

-----------------------------------------------------------------------------
(* Strings.  A JavaScript string is a TLA+ string; s[i] is SubSeq(s, i, i). *)

CharAt(s, i) == SubSeq(s, i, i)
From(s, i) == SubSeq(s, i, Len(s))

UpperChars == "ABCDEFGHIJKLMNOPQRSTUVWXYZ"
LowerChars == "abcdefghijklmnopqrstuvwxyz"
DigitChars == "0123456789"

\* Whether the one-character string ch occurs in the string chars.
InChars(ch, chars) == \E k \in 1 .. Len(chars) : CharAt(chars, k) = ch

\* String.prototype.toLowerCase, on the characters the inputs are made of.
LowerOf ==
  [ch \in {CharAt(UpperChars, k) : k \in 1 .. Len(UpperChars)} |->
     CharAt(LowerChars,
            CHOOSE k \in 1 .. Len(UpperChars) : CharAt(UpperChars, k) = ch)]

RECURSIVE ToLowerCase(_)
ToLowerCase(s) ==
  IF s = "" THEN ""
  ELSE LET ch == CharAt(s, 1)
       IN (IF ch \in DOMAIN LowerOf THEN LowerOf[ch] ELSE ch)
          \o ToLowerCase(From(s, 2))

\* String.prototype.endsWith.
EndsWith(s, suffix) ==
  /\ Len(suffix) <= Len(s)
  /\ SubSeq(s, Len(s) - Len(suffix) + 1, Len(s)) = suffix

\* The smallest index >= from of a character of s that occurs in chars;
\* Len(s) + 1 when there is none.
RECURSIVE IndexOfAny(_, _, _)
IndexOfAny(s, chars, from) ==
  IF from > Len(s) THEN Len(s) + 1
  ELSE IF InChars(CharAt(s, from), chars) THEN from
  ELSE IndexOfAny(s, chars, from + 1)

\* The largest index of the character ch in s; 0 when there is none.
RECURSIVE LastIndexOf(_, _, _)
LastIndexOf(s, ch, from) ==
  IF from < 1 THEN 0
  ELSE IF CharAt(s, from) = ch THEN from
  ELSE LastIndexOf(s, ch, from - 1)

\* s.replace(/<ch>/g, by) for a one-character pattern.
RECURSIVE ReplaceAll(_, _, _)
ReplaceAll(s, ch, by) ==
  IF s = "" THEN ""
  ELSE (IF CharAt(s, 1) = ch THEN by ELSE CharAt(s, 1))
       \o ReplaceAll(From(s, 2), ch, by)

\* encodeHtml, part_006 813-821.
encodeHtml(str) ==
  IF str = "" THEN ""
  ELSE ReplaceAll(ReplaceAll(ReplaceAll(ReplaceAll(ReplaceAll(
         str, "&", "&amp;"), "<", "&lt;"), ">", "&gt;"), "\"", "&quot;"),
         "'", "&#39;")

-----------------------------------------------------------------------------
(* ContentRenderer.renderEmbed *)

\* part_006 476-512.
DEFAULT_TRUSTED_DOMAINS ==
  << "youtube.com", "youtu.be", "youtube-nocookie.com",
     "vimeo.com", "player.vimeo.com",
     "powerbi.com", "app.powerbi.com",
     "powerapps.com", "apps.powerapps.com",
     "flow.microsoft.com",
     "forms.office.com", "forms.microsoft.com",
     "sharepoint.com", "sharepoint-df.com",
     "onedrive.live.com", "onedrive.com",
     "sway.office.com", "sway.com",
     "microsoft.com", "office.com",
     "stream.microsoft.com", "web.microsoftstream.com",
     "teams.microsoft.com",
     "loop.microsoft.com",
     "canva.com",
     "figma.com",
     "miro.com",
     "lucid.app", "lucidchart.com",
     "whimsical.com",
     "loom.com",
     "calendly.com",
     "typeform.com",
     "airtable.com",
     "notion.so", "notion.site",
     "coda.io",
     "mural.co",
     "pitch.com",
     "pideas.studio" >>

\* s.replace(/^www\./, ''), lines 754 and 758.
StripWww(s) ==
  IF Len(s) >= 4 /\ SubSeq(s, 1, 4) = "www." THEN From(s, 5) ELSE s

\* new URL(url), line 745, as far as sanitizeEmbedUrl reads it: whether the
\* string parses, and the protocol and hostname of the result.  A scheme
\* (letters, then letters, digits, "+", "-", ".") ends at the first ":" and is
\* lower-cased; after http: or https: the slashes are skipped, the authority
\* ends at the first "/", "\", "?" or "#", credentials up to the last "@" and a
\* port from the last ":" are dropped, and the host is lower-cased; a string
\* without a scheme, or an http(s) URL without a host, does not parse.
ParseURL(url) ==
  LET fail == [ok |-> FALSE, protocol |-> "", hostname |-> ""]
      colon == IndexOfAny(url, ":", 1)
      scheme == ToLowerCase(SubSeq(url, 1, colon - 1))
      schemeOk ==
        /\ colon <= Len(url) /\ colon > 1
        /\ InChars(CharAt(scheme, 1), LowerChars)
        /\ \A k \in 2 .. Len(scheme) :
             InChars(CharAt(scheme, k), LowerChars \o DigitChars \o "+-.")
      rest == From(url, colon + 1)
      \* the first index of rest that is not a slash
      start == CHOOSE k \in 1 .. (Len(rest) + 1) :
                 /\ \A j \in 1 .. (k - 1) : InChars(CharAt(rest, j), "/\\")
                 /\ k = Len(rest) + 1 \/ ~InChars(CharAt(rest, k), "/\\")
      stop == IndexOfAny(rest, "/\\?#", start)
      authority == SubSeq(rest, start, stop - 1)
      at == LastIndexOf(authority, "@", Len(authority))
      hostport == From(authority, at + 1)
      portAt == LastIndexOf(hostport, ":", Len(hostport))
      host == IF portAt = 0 THEN hostport ELSE SubSeq(hostport, 1, portAt - 1)
  IN IF ~schemeOk THEN fail
     ELSE IF scheme \in {"http", "https"}
     THEN IF host = "" THEN fail
          ELSE [ok |-> TRUE, protocol |-> scheme \o ":",
                hostname |-> ToLowerCase(host)]
     ELSE [ok |-> TRUE, protocol |-> scheme \o ":", hostname |-> ""]

\* The callback of allAllowed.some(...), lines 757-760.
MatchesAllowedNoBoundary(domain, allowed) ==
  LET pattern == ToLowerCase(StripWww(allowed))
  IN domain = pattern \/ EndsWith(domain, pattern)
MatchesAllowed(domain, allowed) ==
  LET pattern == ToLowerCase(StripWww(allowed))
  IN domain = pattern \/ EndsWith(domain, "." \o pattern)

\* sanitizeEmbedUrl(url, additionalDomains), lines 737-772: the URL itself
\* when it is accepted, the empty string otherwise.
sanitizeEmbedUrl(url, additionalDomains) ==
  LET allAllowed == DEFAULT_TRUSTED_DOMAINS \o additionalDomains
      parsed == ParseURL(url)
  IN IF ~parsed.ok THEN ""
     ELSE IF parsed.protocol # "https:" THEN ""
     ELSE LET domain == ToLowerCase(StripWww(parsed.hostname))
              isAllowed == \E k \in DOMAIN allAllowed :
                             MatchesAllowed(domain, allAllowed[k])
          IN IF ~isAllowed THEN "" ELSE url

\* sanitizeCssValue, lines 851-864: /^[\d.]+(px|em|rem|%|vh|vw)?$/i accepts
\* the value as it is (so the branch for a bare number is never reached);
\* anything else becomes "400px".
sanitizeCssValue(value) ==
  IF value = "" THEN ""
  ELSE LET trimmed == value
           numEnd == CHOOSE k \in 1 .. (Len(trimmed) + 1) :
                       /\ \A j \in 1 .. (k - 1) :
                            InChars(CharAt(trimmed, j), DigitChars \o ".")
                       /\ k = Len(trimmed) + 1
                          \/ ~InChars(CharAt(trimmed, k), DigitChars \o ".")
           unit == ToLowerCase(From(trimmed, numEnd))
       IN IF numEnd > 1 /\ unit \in {"", "px", "em", "rem", "%", "vh", "vw"}
          THEN trimmed
          ELSE "400px"

\* An element of the html a render function returns: its tag, its class, its
\* text and its attributes as name/value pairs.
Element(tag, class, text, attrs) ==
  [tag |-> tag, class |-> class, text |-> text, attrs |-> attrs]

\* The html of lines 701-712.
BlockedNoticeSilent == <<>>
BlockedNotice ==
  << Element("div", "picanvas-embed-blocked", "", {}),
     Element("span", "blocked-text", "This embed URL is not allowed.", {}),
     Element("details", "", "Contact your site administrator to add this domain to the allow list.", {}) >>

\* renderEmbed(config), lines 690-732: the html of the result.
renderEmbed(cfg) ==
  IF cfg.url.type # "string" \/ cfg.url.value = ""
  THEN << Element("p", "picanvas-render-error", "No embed URL provided", {}) >>
  ELSE
    LET sanitizedUrl == sanitizeEmbedUrl(cfg.url.value, cfg.additionalDomains)
    IN IF sanitizedUrl = ""
       THEN BlockedNotice
       ELSE
         LET encodedUrl == encodeHtml(sanitizedUrl)
             iframeSrcAttr == IF cfg.defer THEN <<"data-src", encodedUrl>>
                              ELSE <<"src", encodedUrl>>
         IN << Element("div", "picanvas-embed-container", "",
                       {<<"style", "height: " \o sanitizeCssValue(cfg.height)>>}),
               Element("iframe", "", "",
                       { iframeSrcAttr,
                         <<"loading", "lazy">>,
                         <<"allowfullscreen", "">>,
                         <<"referrerpolicy", "no-referrer-when-downgrade">>,
                         <<"sandbox", "allow-scripts allow-same-origin allow-forms allow-popups allow-presentation">> }) >>

(* The embed inputs *)

MaxHostPieces == 2

Schemes == {"https://", "http://", "HTTPS://", ""}
UserInfos == {"", "youtube.com@"}
HostPieces == {"www.", "M.", "evil", "youtube.com", "intranet.io", "."}
UrlTails == {"", "/youtube.com?a=1&b=2", ":8443/?h=.youtube.com"}
ExtraDomainLists == {<<>>, <<"www.intranet.io">>, <<"Intranet.IO">>}
Heights == {"400px", "1;x"}

RECURSIVE Hosts(_)
Hosts(k) ==
  IF k = 0 THEN {""}
  ELSE LET shorter == Hosts(k - 1)
       IN shorter \cup {h \o p : h \in shorter, p \in HostPieces}

EmbedUrls ==
  {[type |-> "string", value |-> s \o ui \o h \o t] :
     s \in Schemes, ui \in UserInfos, h \in Hosts(MaxHostPieces), t \in UrlTails}
  \cup {[type |-> "undefined", value |-> ""], [type |-> "number", value |-> "42"]}

InitEmbed ==
  /\ config \in [url : EmbedUrls, height : Heights,
                 additionalDomains : ExtraDomainLists, defer : BOOLEAN]
  /\ result = [rendered |-> FALSE, html |-> <<>>]
  /\ TabIdle
  /\ SanitizeIdle
  /\ BannerIdle
  /\ MermaidIdle
  /\ LandingIdle
  /\ IdIdle
  /\ DateIdle
  /\ RssIdle
  /\ FileIdle
  /\ RenderIdle
  /\ StagedIdle

RenderEmbed ==
  /\ ~result.rendered
  /\ result' = [rendered |-> TRUE, html |-> renderEmbed(config)]
  /\ UNCHANGED config
  /\ UNCHANGED nonEmbedVars

NextEmbed == RenderEmbed

SpecEmbed == InitEmbed /\ [][NextEmbed]_vars

-----------------------------------------------------------------------------
(* Claims about renderEmbed, checked under SpecEmbed *)

HtmlElements(html) == {html[k] : k \in DOMAIN html}

\* The src and data-src attributes of the iframe elements of the result.
FrameRefs ==
  {a \in UNION {e.attrs : e \in {x \in HtmlElements(result.html) :
                                   x.tag = "iframe"}} :
     a[1] \in {"src", "data-src"}}

HasBlockedNotice ==
  \E e \in HtmlElements(result.html) :
    e.class = "blocked-text" /\ e.text = "This embed URL is not allowed."

HasErrorMessage ==
  \E e \in HtmlElements(result.html) :
    e.class = "picanvas-render-error" /\ e.text # ""

HasIframe == \E e \in HtmlElements(result.html) : e.tag = "iframe"

\* h is "." followed by p, or something followed by "." and p.
HasDotSuffix(h, p) == \E k \in 1 .. Len(h) : From(h, k) = "." \o p

\* The entries of the built-in list merged with additionalDomains.
AllowList ==
  {DEFAULT_TRUSTED_DOMAINS[k] : k \in DOMAIN DEFAULT_TRUSTED_DOMAINS}
  \cup {config.additionalDomains[k] : k \in DOMAIN config.additionalDomains}

\* The URL parses, is https, and its hostname (lower-cased, leading "www."
\* removed) is one of names or a subdomain of one.
UrlAdmittedBy(names) ==
  LET parsed == ParseURL(config.url.value)
      h == ToLowerCase(StripWww(parsed.hostname))
  IN /\ config.url.type = "string"
     /\ parsed.ok
     /\ parsed.protocol = "https:"
     /\ \E e \in names : h = e \/ HasDotSuffix(h, e)

C6_NeverSilent ==
  result.rendered =>
    /\ result.html # <<>>
    /\ (config.url.type # "string" \/ config.url.value = "")
         => (HasErrorMessage /\ ~HasIframe)
    /\ (/\ config.url.type = "string" /\ config.url.value # ""
        /\ ~UrlAdmittedBy({ToLowerCase(StripWww(e)) : e \in AllowList}))
         => (HasBlockedNotice /\ ~HasIframe)

\* An https URL whose host only ends with an allowed name, without the dot
\* boundary, was answered with the blocked notice.
C6_Witness ==
  /\ result.rendered /\ HasBlockedNotice
  /\ ParseURL(config.url.value).protocol = "https:"
  /\ ParseURL(config.url.value).hostname = "evilyoutube.com"

-----------------------------------------------------------------------------
(* renderMarkdown, renderHtml, renderLockTemplate *)

(***************************************************************************)
(* Markup is a document: the elements on one path of the parsed tree, from *)
(* the outermost to the innermost, each [tag, attrs] with attrs the set of *)
(* its attribute names.  DOMPurify and marked are libraries the renderer   *)
(* calls; they are modelled by their documented behaviour.  DOMPurify      *)
(* keeps an element when its tag is allowed (the profile's tags and        *)
(* ADD_TAGS) and not in FORBID_TAGS; a refused element is dropped with its *)
(* content when its tag is one of the library's FORBID_CONTENTS, and       *)
(* replaced by its sanitized children otherwise.  It keeps an attribute    *)
(* when its name is allowed (the profile's attributes and ADD_ATTR, data-* *)
(* names under ALLOW_DATA_ATTR) and not in FORBID_ATTR.                    *)
(***************************************************************************)

\* USE_PROFILES: { html: true } (lines 546, 570, 598): the tags and attribute
\* names of the library's HTML profile that the documents here use.
HtmlProfileTags == {"p", "div", "span", "a", "img", "style"}
HtmlProfileAttrs == {"class", "href", "src", "title", "style"}

\* The library's FORBID_CONTENTS among the tags the documents here use.
ForbidContents == {"script", "style", "iframe"}

\* The options of lines 545-550; ALLOW_DATA_ATTR is left at the library's
\* default here and in renderHtml.
MarkdownOptions ==
  [ADD_TAGS |-> {}, ADD_ATTR |-> {"target", "rel"},
   FORBID_TAGS |-> {"style", "script"},
   FORBID_ATTR |-> {"onerror", "onload", "onclick", "onmouseover"},
   ALLOW_DATA_ATTR |-> TRUE]

\* The options of lines 569-578.
HtmlOptionsWithHandler ==
  [ADD_TAGS |-> {"iframe"},
   ADD_ATTR |-> {"target", "rel", "allow", "allowfullscreen", "frameborder",
                 "scrolling", "loading", "referrerpolicy", "sandbox",
                 "onwheel"},
   FORBID_TAGS |-> {"script"},
   FORBID_ATTR |-> {"onerror", "onload", "onclick", "onmouseover",
                    "onmouseout", "onfocus", "onblur"},
   ALLOW_DATA_ATTR |-> TRUE]
HtmlOptions ==
  [ADD_TAGS |-> {"iframe"},
   ADD_ATTR |-> {"target", "rel", "allow", "allowfullscreen", "frameborder",
                 "scrolling", "loading", "referrerpolicy", "sandbox"},
   FORBID_TAGS |-> {"script"},
   FORBID_ATTR |-> {"onerror", "onload", "onclick", "onmouseover",
                    "onmouseout", "onfocus", "onblur"},
   ALLOW_DATA_ATTR |-> TRUE]

\* The options of lines 597-604.
LockTemplateOptions ==
  [ADD_TAGS |-> {"style"}, ADD_ATTR |-> {"style"},
   FORBID_TAGS |-> {"script"},
   FORBID_ATTR |-> {"onerror", "onload", "onclick", "onmouseover",
                    "onmouseout", "onfocus", "onblur"},
   ALLOW_DATA_ATTR |-> TRUE]

StartsWith(s, prefix) ==
  Len(prefix) <= Len(s) /\ SubSeq(s, 1, Len(prefix)) = prefix

TagAllowed(tag, options) ==
  /\ tag \in HtmlProfileTags \cup options.ADD_TAGS
  /\ tag \notin options.FORBID_TAGS

AttrAllowed(name, options) ==
  /\ name \notin options.FORBID_ATTR
  /\ \/ name \in HtmlProfileAttrs \cup options.ADD_ATTR
     \/ options.ALLOW_DATA_ATTR /\ StartsWith(name, "data-")

\* DOMPurify.sanitize(dirty, options) on a document.
RECURSIVE Sanitize(_, _)
Sanitize(doc, options) ==
  IF doc = <<>> THEN <<>>
  ELSE LET e == Head(doc)
       IN IF TagAllowed(e.tag, options)
          THEN << [tag |-> e.tag,
                   attrs |-> {a \in e.attrs : AttrAllowed(a, options)}] >>
               \o Sanitize(Tail(doc), options)
          ELSE IF e.tag \in ForbidContents THEN <<>>
          ELSE Sanitize(Tail(doc), options)

\* marked.parse(content, {gfm, breaks}), line 539: inline HTML of the content
\* passes through unchanged, inside the paragraph marked opens for the text
\* around it.
MarkedParse(doc) == << [tag |-> "p", attrs |-> {}] >> \o doc

IsBlank(content) == content.type # "string" \/ content.doc = <<>>

\* <p class="picanvas-render-error">...</p>, lines 555, 583 and 609.
RenderError == << [tag |-> "p", attrs |-> {"class"}] >>

\* renderMarkdown(content), lines 532-557; throws: a library call raises.
renderMarkdown(content, throws) ==
  IF IsBlank(content) THEN <<>>
  ELSE IF throws THEN RenderError
  ELSE Sanitize(MarkedParse(content.doc), MarkdownOptions)

\* renderHtml(content), lines 562-585.
renderHtml(content, throws) ==
  IF IsBlank(content) THEN <<>>
  ELSE IF throws THEN RenderError
  ELSE Sanitize(content.doc, HtmlOptions)

\* renderLockTemplate(content), lines 591-611.
renderLockTemplate(content, throws) ==
  IF IsBlank(content) THEN <<>>
  ELSE IF throws THEN RenderError
  ELSE Sanitize(content.doc, LockTemplateOptions)

(* The markup inputs *)

MaxDepth == 2

DocTags == {"div", "script", "iframe", "object"}
DocAttrs == {"class", "onclick", "onwheel", "data-onx"}
DocNodes == [tag : DocTags, attrs : SUBSET DocAttrs]

Docs == UNION {[1 .. d -> DocNodes] : d \in 0 .. MaxDepth}

InitSanitize ==
  /\ markup \in [fn : {"renderMarkdown", "renderHtml", "renderLockTemplate"},
                 content : {[type |-> "string", doc |-> d] : d \in Docs}
                           \cup {[type |-> "undefined", doc |-> <<>>]},
                 throws : BOOLEAN]
  /\ sanitized = [rendered |-> FALSE, html |-> <<>>]
  /\ TabIdle
  /\ EmbedIdle
  /\ BannerIdle
  /\ MermaidIdle
  /\ LandingIdle
  /\ IdIdle
  /\ DateIdle
  /\ RssIdle
  /\ FileIdle
  /\ RenderIdle
  /\ StagedIdle

RenderMarkup ==
  /\ ~sanitized.rendered
  /\ sanitized' =
       [rendered |-> TRUE,
        html |-> CASE markup.fn = "renderMarkdown" ->
                        renderMarkdown(markup.content, markup.throws)
                   [] markup.fn = "renderHtml" ->
                        renderHtml(markup.content, markup.throws)
                   [] OTHER -> renderLockTemplate(markup.content, markup.throws)]
  /\ UNCHANGED markup
  /\ UNCHANGED nonSanitizeVars

NextSanitize == RenderMarkup

SpecSanitize == InitSanitize /\ [][NextSanitize]_vars

-----------------------------------------------------------------------------
(* Claims about the sanitized markup, checked under SpecSanitize *)

\* C7: whatever the markdown, html or lock-template input, the html returned
\* holds no script element and no on* attribute at any depth, also for handler
\* names that no FORBID_ATTR list names.
C7_NoScriptNoHandlers ==
  sanitized.rendered =>
    \A k \in DOMAIN sanitized.html :
      /\ sanitized.html[k].tag # "script"
      /\ \A a \in sanitized.html[k].attrs : ~StartsWith(a, "on")

\* renderHtml returned an iframe nested in a div for an input whose iframe
\* carried onwheel, a handler name outside the FORBID_ATTR list.
C7_Witness ==
  /\ sanitized.rendered /\ markup.fn = "renderHtml" /\ ~markup.throws
  /\ Len(markup.content.doc) = 2
  /\ markup.content.doc[2].tag = "iframe"
  /\ "onwheel" \in markup.content.doc[2].attrs
  /\ "onclick" \in markup.content.doc[1].attrs
  /\ Len(sanitized.html) = 2
  /\ sanitized.html[2] = [tag |-> "iframe", attrs |-> {"class", "data-onx"}]

-----------------------------------------------------------------------------
(* The banner stabiliser of one contained-mode panel *)

(***************************************************************************)
(* SpecBanner follows one panel with data-fullwidth-banner = "false" from  *)
(* the end of $add.Tabs on, while the tab set keeps it displayed or keeps  *)
(* it hidden.  Its fullWidthImageLayout containers each hold an image; a   *)
(* container sits in a BannerWebPart or HeroWebPart (inBanner) or on its   *)
(* own, as under a PageTitle.  A complete image has naturalHeight > 0.     *)
(* Time is counted in ms for the debounce timers only; the staged retries  *)
(* fire in their order at moments the model leaves open.                   *)
(***************************************************************************)

MaxLayouts == 2
TickMs == 100

\* var DEBOUNCE_MS = 200, line 289.
DEBOUNCE_MS == 200

\* The setTimeout calls of lines 260, 266 and 272.
StagedRetries == 3

Layouts == DOMAIN layouts

\* What the host page writes on a container: the viewport-escaping style.
HostStyles ==
  { [width |-> "100vw", marginLeft |-> "calc(-50vw + 50%)"] }

\* el.style.cssText = 'width: 100% !important; ... margin-left: 0 ...', lines
\* 67, 121 and 165: the whole inline style is replaced, a height included.
ContainedCss(l) ==
  [l EXCEPT !.width = "100%", !.marginLeft = "0px", !.height = ""]

\* lockBannerHeight(container, img), lines 194-224, up to the callback.
lockBannerHeight(l) ==
  IF l.img = "complete"
  THEN [l EXCEPT !.rafs = Min(@ + 1, MaxCount)]
  ELSE [l EXCEPT !.listeners = Min(@ + 1, MaxCount)]

\* applyHeightLock(), lines 195-207.
applyHeightLock(l, visible) ==
  IF visible THEN [l EXCEPT !.height = "px", !.locked = TRUE] ELSE l

\* fixBannerWebparts on one container in contained mode: the banner loop
\* (49-109) or the hero loop (114-156) where the container is inside such a
\* webpart, then the loop over every fullWidthImageLayout (161-183).
FixLayout(l) ==
  LET inWebpart == IF l.inBanner THEN lockBannerHeight(ContainedCss(l)) ELSE l
  IN lockBannerHeight(ContainedCss(inWebpart))

\* fixBannerWebparts($panel), lines 42-184, contained mode.
fixBannerWebparts(ls) == [i \in DOMAIN ls |-> FixLayout(ls[i])]

LockedSet(ls) == {i \in DOMAIN ls : ls[i].locked}

\* Lines 294-304: every layout carries picanvas-height-locked.
AllLocked(ls) == \A i \in DOMAIN ls : ls[i].locked

\* The style the callback reads from mutation.target: a container's inline
\* style as it is now, or the one of another element of the panel.
TargetStyle(ls, m) ==
  IF m.target \in DOMAIN ls
  THEN [width |-> ls[m.target].width, marginLeft |-> ls[m.target].marginLeft,
        locked |-> ls[m.target].locked]
  ELSE [width |-> m.width, marginLeft |-> m.marginLeft, locked |-> FALSE]

\* Lines 307-325, one mutation record.
NeedsFix(ls, m) ==
  \/ /\ m.type = "attributes"
     /\ LET el == TargetStyle(ls, m)
        IN /\ ~el.locked
           /\ \/ el.width # "" /\ el.width # "100%"
              \/ el.marginLeft # "" /\ el.marginLeft # "0px"
  \/ m.type = "childList" /\ m.added > 0

\* Lines 294-327: the callback goes on to set the timer.
Qualifies(ls, mutations) ==
  /\ ~(AllLocked(ls) /\ Len(ls) > 0)
  /\ \E m \in mutations : NeedsFix(ls, m)

\* if (debounceTimer) clearTimeout(debounceTimer), lines 329-331: the handle
\* is the one of the timer set last.
ClearTimeoutNever(timers, handle) == timers
ClearTimeout(timers, handle) ==
  IF handle /\ timers # <<>> THEN SubSeq(timers, 1, Len(timers) - 1)
  ELSE timers

\* The observer callback of lines 292-337 on a batch of records, the panel
\* being ls, the timers and the handle as given. observer.observe is called
\* at line 340; no line of the controller calls disconnect on this observer
\* or reads the reference stored at line 348.
ObserverCallback(ls, mutations, timers, handle, log) ==
  IF observing /\ Qualifies(ls, mutations)
  THEN /\ pendingTimers' = Append(ClearTimeout(timers, handle), DEBOUNCE_MS)
       /\ debounceTimer' = TRUE
       /\ armedLocked' = LockedSet(ls)
       /\ hadMutation' = TRUE
       /\ sinceMutation' = 0
       /\ passLog' = <<>>
       /\ burst' = IF timers # <<>> THEN Min(burst + 1, MaxCount) ELSE 1
  ELSE /\ pendingTimers' = timers
       /\ debounceTimer' = handle
       /\ passLog' = log
       /\ UNCHANGED <<armedLocked, hadMutation, sinceMutation, burst>>

\* The records of the script's own writes on the containers in touched: the
\* style attribute of each container and of its image. The observer is
\* called with them once the script that wrote has returned.
OwnRecords(touched) ==
  {[type |-> "attributes", target |-> i, width |-> "", marginLeft |-> "",
    added |-> 0] : i \in touched}
  \cup (IF touched = {} THEN {}
        ELSE {[type |-> "attributes", target |-> 0, width |-> "100%",
               marginLeft |-> "", added |-> 0]})

\* What the host page does inside the panel, as the record the observer gets.
HostRecords ==
  {[type |-> "attributes", target |-> i, width |-> hs.width,
    marginLeft |-> hs.marginLeft, added |-> 0] :
      i \in Layouts, hs \in HostStyles}
  \cup {[type |-> "attributes", target |-> 0, width |-> w, marginLeft |-> "",
         added |-> 0] : w \in {"100%"}}
  \cup {[type |-> "childList", target |-> 0, width |-> "", marginLeft |-> "",
         added |-> k] : k \in {0, 1}}
  \cup {[type |-> "childList", target |-> i, width |-> "", marginLeft |-> "",
         added |-> 1] : i \in Layouts}

NoHostRecord == [onLocked |-> FALSE, armed |-> FALSE]

\* The kind of a container, for listing the containers of a panel.
KindRank(inBanner, img) ==
  (IF inBanner THEN 2 ELSE 0) + (IF img = "complete" THEN 1 ELSE 0)

\* The panel as the host rendered it, then the pass of lines 255-257. No
\* loop of the code depends on the order of the containers, so one order is
\* taken for each combination of kinds.
InitBanner ==
  /\ \E count \in 0 .. MaxLayouts :
       \E inBanner \in [1 .. count -> BOOLEAN],
          img \in [1 .. count -> {"loading", "complete"}] :
         /\ \A i \in 1 .. (count - 1) :
              KindRank(inBanner[i], img[i]) <= KindRank(inBanner[i + 1], img[i + 1])
         /\ layouts = fixBannerWebparts(
                     [i \in 1 .. count |->
                        [width |-> "100vw", marginLeft |-> "calc(-50vw + 50%)",
                         height |-> "", locked |-> FALSE, img |-> img[i],
                         listeners |-> 0, rafs |-> 0,
                         inBanner |-> inBanner[i]]])
  /\ panelVisible \in BOOLEAN
  /\ retriesLeft = StagedRetries
  /\ observing = TRUE
  /\ debounceTimer = FALSE /\ pendingTimers = <<>> /\ armedLocked = {}
  /\ hadMutation = FALSE /\ sinceMutation = 0 /\ passLog = <<>> /\ burst = 0
  /\ notified = NoHostRecord
  /\ TabIdle
  /\ EmbedIdle
  /\ SanitizeIdle
  /\ MermaidIdle
  /\ LandingIdle
  /\ IdIdle
  /\ DateIdle
  /\ RssIdle
  /\ FileIdle
  /\ RenderIdle
  /\ StagedIdle

\* The host page changes the panel; the observer callback runs on the record.
HostMutation(m) ==
  /\ m \in HostRecords
  /\ LET ls == IF m.type = "attributes" /\ m.target \in Layouts
               THEN [layouts EXCEPT ![m.target].width = m.width,
                                    ![m.target].marginLeft = m.marginLeft]
               ELSE layouts
     IN /\ layouts' = ls
        /\ ObserverCallback(ls, {m}, pendingTimers, debounceTimer, passLog)
        /\ notified' = [onLocked |-> m.target \in LockedSet(ls),
                        armed |-> observing /\ Qualifies(ls, {m})]
  /\ UNCHANGED <<panelVisible, retriesLeft>>
  /\ UNCHANGED observing
  /\ UNCHANGED nonBannerVars

\* The debounce timer of lines 332-335 fires.
DebounceFire ==
  /\ pendingTimers # <<>> /\ Head(pendingTimers) = 0
  /\ LET ls == fixBannerWebparts(layouts)
     IN /\ layouts' = ls
        /\ ObserverCallback(ls, OwnRecords(DOMAIN ls), Tail(pendingTimers),
                            FALSE, Append(passLog, sinceMutation))
  /\ notified' = NoHostRecord
  /\ UNCHANGED <<panelVisible, retriesLeft>>
  /\ UNCHANGED observing
  /\ UNCHANGED nonBannerVars

\* One of the staged retries of lines 260-276 fires.
StagedRetry ==
  /\ retriesLeft > 0
  /\ retriesLeft' = retriesLeft - 1
  /\ LET ls == fixBannerWebparts(layouts)
     IN /\ layouts' = ls
        /\ ObserverCallback(ls, OwnRecords(DOMAIN ls), pendingTimers,
                            debounceTimer, passLog)
  /\ notified' = NoHostRecord
  /\ UNCHANGED panelVisible
  /\ UNCHANGED observing
  /\ UNCHANGED nonBannerVars

\* The image of container i finishes loading: every onLoad listener of
\* lines 217-222 removes itself and requests a frame.
ImageLoad(i) ==
  /\ i \in Layouts /\ layouts[i].img = "loading"
  /\ layouts' = [layouts EXCEPT ![i].img = "complete",
                                ![i].rafs = Min(@ + layouts[i].listeners, MaxCount),
                                ![i].listeners = 0]
  /\ UNCHANGED <<panelVisible, retriesLeft, debounceTimer, pendingTimers,
                 armedLocked, hadMutation, sinceMutation, passLog, burst>>
  /\ notified' = NoHostRecord
  /\ UNCHANGED observing
  /\ UNCHANGED nonBannerVars

\* The next frame: every requested callback of lines 212-214 and 219-221
\* runs applyHeightLock.
AnimationFrame ==
  /\ \E i \in Layouts : layouts[i].rafs > 0
  /\ LET due == {i \in Layouts : layouts[i].rafs > 0}
         ls == [i \in Layouts |->
                  IF i \in due
                  THEN [applyHeightLock(layouts[i], panelVisible)
                          EXCEPT !.rafs = 0]
                  ELSE layouts[i]]
     IN /\ layouts' = ls
        /\ ObserverCallback(ls, OwnRecords(IF panelVisible THEN due ELSE {}),
                            pendingTimers, debounceTimer, passLog)
  /\ notified' = NoHostRecord
  /\ UNCHANGED <<panelVisible, retriesLeft>>
  /\ UNCHANGED observing
  /\ UNCHANGED nonBannerVars

\* Time passes, up to the moment the next debounce timer is due.
Tick ==
  /\ pendingTimers # <<>> \/ (hadMutation /\ sinceMutation <= DEBOUNCE_MS)
  /\ LET d == IF pendingTimers # <<>> THEN Min(TickMs, Head(pendingTimers))
              ELSE TickMs
     IN /\ d > 0
        /\ pendingTimers' = [k \in DOMAIN pendingTimers |-> pendingTimers[k] - d]
        /\ sinceMutation' = Min(sinceMutation + d, DEBOUNCE_MS + TickMs)
  /\ UNCHANGED <<layouts, panelVisible, retriesLeft, debounceTimer,
                 armedLocked, hadMutation, passLog, burst>>
  /\ notified' = NoHostRecord
  /\ UNCHANGED observing
  /\ UNCHANGED nonBannerVars

NextBanner ==
  \/ \E m \in HostRecords : HostMutation(m)
  \/ DebounceFire
  \/ StagedRetry
  \/ \E i \in Layouts : ImageLoad(i)
  \/ AnimationFrame
  \/ Tick

SpecBanner == InitBanner /\ [][NextBanner]_vars

-----------------------------------------------------------------------------
(* Claims about the banner stabiliser, checked under SpecBanner *)

\* C8: once a container is height-locked, a mutation notified after that
\* never leads to a corrective write on it: the observer pass that such a
\* mutation schedules leaves every container that was already locked at the
\* notification as it was (its inline style is not overwritten and no further
\* height lock is requested for it).
C8_NoWriteAfterLock ==
  [][Len(passLog') > Len(passLog) =>
       \A i \in armedLocked : layouts'[i] = layouts[i]]_vars

\* C14: a mutation whose target is a height-locked container (a change of its
\* style attribute or a child added to it) never makes the observer schedule
\* a corrective pass, whatever the lock state of the other containers.
C14_LockedTargetIgnored == notified.onLocked => ~notified.armed

\* C15: every mutation observer the controller connects is disconnected in
\* the end: once every timer the controller has set for the panel has fired
\* and no frame or image load is awaited, the panel's banner observer is no
\* longer connected. (The style observers of the activations are those of
\* Spec, each with its own 2 s timer.)
C15_ObserversDisconnected ==
  (/\ retriesLeft = 0 /\ pendingTimers = <<>>
   /\ \A i \in Layouts : layouts[i].rafs = 0 /\ layouts[i].listeners = 0)
    => ~observing

\* C9: the observer pass is debounced: at most one debounce timer is pending;
\* a pending timer is due DEBOUNCE_MS after the last qualifying mutation and
\* no pass has run since that mutation; once the timer is gone exactly one
\* pass has run since that mutation, DEBOUNCE_MS after it.
C9_Debounced ==
  /\ Len(pendingTimers) <= 1
  /\ pendingTimers # <<>> =>
       /\ hadMutation
       /\ pendingTimers[1] = DEBOUNCE_MS - sinceMutation
       /\ passLog = <<>>
  /\ hadMutation /\ pendingTimers = <<>> => passLog = <<DEBOUNCE_MS>>
  /\ ~hadMutation => passLog = <<>>

\* A burst of two or more qualifying mutations was followed by its one pass,
\* and time has gone on since.
C9_Witness ==
  /\ burst >= 2
  /\ passLog = <<DEBOUNCE_MS>>
  /\ sinceMutation > DEBOUNCE_MS
  /\ pendingTimers = <<>>

-----------------------------------------------------------------------------
(* renderMermaidElement *)

(***************************************************************************)
(* SpecMermaid follows the calls of renderMermaidElement on one            *)
(* placeholder element as prepareMermaid made it. An async call runs to    *)
(* its await in one step and resumes in another when mermaid.render        *)
(* settles; other calls may run in between. mermaid.render is the diagram  *)
(* library: it resolves with svg markup or rejects with an error, and      *)
(* which of the two is left open.                                          *)
(***************************************************************************)

MaxCalls == 3

\* String(error) of what mermaid.render may reject with.
ErrorTexts == {"Parse error on line 1: A --> <B> & 'C'", "Error: layout"}

EngineOutcomes ==
  {[ok |-> TRUE, error |-> ""]} \cup {[ok |-> FALSE, error |-> e] : e \in ErrorTexts}

\* The markup of lines 673-682, with its <pre> text.
ErrorPanel(error) == [kind |-> "error", text |-> encodeHtml(error)]

\* The catch of lines 671-683: what becomes of the target and of the call.
MermaidCatchNone(div, error) == [div |-> div, call |-> "rejected"]
MermaidCatch(div, error) == [div |-> ErrorPanel(error), call |-> "resolved"]

InitMermaid ==
  /\ mermaidEl \in [content : BOOLEAN, id : BOOLEAN, target : BOOLEAN]
  /\ mermaidDiv = [kind |-> "source", text |-> ""]
  /\ renderedClass = FALSE /\ mermaidInitialized = FALSE
  /\ \E count \in 1 .. MaxCalls : calls = [k \in 1 .. count |-> "idle"]
  /\ engineCalls = 0 /\ engineOutputs = 0
  /\ TabIdle
  /\ EmbedIdle
  /\ SanitizeIdle
  /\ BannerIdle
  /\ LandingIdle
  /\ IdIdle
  /\ DateIdle
  /\ RssIdle
  /\ FileIdle
  /\ RenderIdle
  /\ StagedIdle

\* renderMermaidElement(element), lines 650-669, up to the await.
StartCall(k) ==
  /\ k \in DOMAIN calls /\ calls[k] = "idle"
  /\ mermaidInitialized' = TRUE
  /\ IF \/ ~mermaidEl.content \/ ~mermaidEl.id
        \/ ~mermaidEl.target \/ mermaidDiv.kind = "svg"
     THEN /\ calls' = [calls EXCEPT ![k] = "resolved"]
          /\ UNCHANGED engineCalls
     ELSE /\ calls' = [calls EXCEPT ![k] = "awaiting"]
          /\ engineCalls' = engineCalls + 1
  /\ UNCHANGED <<mermaidEl, mermaidDiv, renderedClass, engineOutputs>>
  /\ UNCHANGED nonMermaidVars

\* mermaid.render settles and the call resumes, lines 669-683.
EngineSettles(k, o) ==
  /\ k \in DOMAIN calls /\ calls[k] = "awaiting"
  /\ o \in EngineOutcomes
  /\ IF o.ok
     THEN /\ mermaidDiv' = [kind |-> "svg", text |-> ""]
          /\ renderedClass' = TRUE
          /\ engineOutputs' = engineOutputs + 1
          /\ calls' = [calls EXCEPT ![k] = "resolved"]
     ELSE LET caught == MermaidCatch(mermaidDiv, o.error)
          IN /\ mermaidDiv' = caught.div
             /\ calls' = [calls EXCEPT ![k] = caught.call]
             /\ UNCHANGED <<renderedClass, engineOutputs>>
  /\ UNCHANGED <<mermaidEl, mermaidInitialized, engineCalls>>
  /\ UNCHANGED nonMermaidVars

NextMermaid ==
  \/ \E k \in DOMAIN calls : StartCall(k)
  \/ \E k \in DOMAIN calls, o \in EngineOutcomes : EngineSettles(k, o)

SpecMermaid == InitMermaid /\ [][NextMermaid]_vars

-----------------------------------------------------------------------------
(* Claims about renderMermaidElement, checked under SpecMermaid *)

\* C16: once the target holds rendered svg, no call, also none begun before
\* the first one finished, invokes the engine again or changes the content,
\* and the engine produces output for the placeholder at most once.
C16_RenderedOnce ==
  [][/\ mermaidDiv.kind = "svg" =>
          mermaidDiv' = mermaidDiv /\ engineCalls' = engineCalls
     /\ engineOutputs' <= 1]_vars

\* C17: when a call has completed on a placeholder with encoded content, an
\* id and a target, the target holds the svg or the error panel, whose
\* <pre> text has no markup character left; no call has rejected.
C17_NeverBlank ==
  /\ \A k \in DOMAIN calls : calls[k] # "rejected"
  /\ (/\ mermaidEl.content /\ mermaidEl.id /\ mermaidEl.target
      /\ \E k \in DOMAIN calls : calls[k] = "resolved")
       => /\ mermaidDiv.kind \in {"svg", "error"}
          /\ mermaidDiv.kind = "error" =>
               /\ mermaidDiv.text # ""
               /\ \A j \in 1 .. Len(mermaidDiv.text) :
                    ~InChars(CharAt(mermaidDiv.text, j), "<>'\"")

\* A call has ended in the error panel for an error text that held markup.
C17_Witness ==
  /\ mermaidEl.content /\ mermaidEl.id /\ mermaidEl.target
  /\ \A k \in DOMAIN calls : calls[k] = "resolved"
  /\ mermaidDiv = [kind |-> "error",
                   text |-> "Parse error on line 1: A --&gt; &lt;B&gt; &amp; &#39;C&#39;"]


-----------------------------------------------------------------------------
(* Landing animations: initLandingAnimations and destroyLandingAnimations.
   A closure stored in container._landingCleanup is modelled by what it
   removes when called: the scroll listeners it removes from the window and
   the observers it disconnects. *)

MaxInits == 3

NoCleanup == [set |-> FALSE, listeners |-> {}, observers |-> {}]

\* Lines 1471-1476: the new handle calls existingCleanup, the handle found on
\* the container at line 1471, then disconnects this call's two observers.
ChainCleanup(existing, id) ==
  [set |-> TRUE,
   listeners |-> existing.listeners,
   observers |-> existing.observers \cup {<<id, "fade">>, <<id, "toggle">>}]

InitLanding ==
  /\ landingDom \in [snake : BOOLEAN, timeline : BOOLEAN, fade : BOOLEAN, toggle : BOOLEAN]
  /\ reducedMotion \in BOOLEAN
  /\ scrollListeners = {} /\ connected = {}
  /\ landingCleanup = NoCleanup
  /\ inits = 0 /\ landingLast = "none"
  /\ TabIdle
  /\ EmbedIdle
  /\ SanitizeIdle
  /\ BannerIdle
  /\ MermaidIdle
  /\ IdIdle
  /\ DateIdle
  /\ RssIdle
  /\ FileIdle
  /\ RenderIdle
  /\ StagedIdle

\* initLandingAnimations(container), lines 1390-1477.
InitLandingAnimations ==
  /\ inits < MaxInits
  /\ LET id == inits + 1
         scroll == landingDom.snake /\ landingDom.timeline /\ ~reducedMotion
         \* lines 1430-1436: the handle is assigned, not chained
         afterScroll == IF scroll
                          THEN [set |-> TRUE, listeners |-> {id}, observers |-> {}]
                          ELSE landingCleanup
     IN /\ inits' = id
        /\ scrollListeners' = IF scroll THEN scrollListeners \cup {id} ELSE scrollListeners
        \* lines 1464-1468: an observer is connected once it observes an element
        /\ connected' = connected
                          \cup (IF landingDom.fade THEN {<<id, "fade">>} ELSE {})
                          \cup (IF landingDom.toggle THEN {<<id, "toggle">>} ELSE {})
        /\ landingCleanup' = ChainCleanup(afterScroll, id)
  /\ landingLast' = "init"
  /\ UNCHANGED <<landingDom, reducedMotion>>
  /\ UNCHANGED nonLandingVars

\* destroyLandingAnimations(container), lines 1482-1488.
DestroyLandingAnimations ==
  /\ IF landingCleanup.set
       THEN /\ scrollListeners' = scrollListeners \ landingCleanup.listeners
            /\ connected' = connected \ landingCleanup.observers
            /\ landingCleanup' = NoCleanup
            /\ landingLast' = "destroy"
       ELSE /\ UNCHANGED <<scrollListeners, connected, landingCleanup>>
            /\ landingLast' = "destroy-noop"
  /\ UNCHANGED <<landingDom, reducedMotion, inits>>
  /\ UNCHANGED nonLandingVars

NextLanding ==
  \/ InitLandingAnimations
  \/ DestroyLandingAnimations

SpecLanding == InitLanding /\ [][NextLanding]_vars

\* C18: after destroyLandingAnimations(container), whatever calls of
\* initLandingAnimations and destroyLandingAnimations came before, no scroll
\* listener made for the container is attached to the window and no
\* intersection observer made for it is connected; a destroy that directly
\* follows a destroy changes nothing.
C18_DestroyRemovesAll ==
  /\ landingLast \in {"destroy", "destroy-noop"}
       => scrollListeners = {} /\ connected = {}
  /\ landingLast = "destroy-noop" => landingCleanup = NoCleanup

-----------------------------------------------------------------------------
(* Deferred embeds in lazy panels: the panels hold what renderEmbed emitted
   and the tab controller promotes data-src to src. *)

DeferredConfig ==
  [url |-> [type |-> "string", value |-> "https://www.youtube.com/embed/x"],
   height |-> "400px", additionalDomains |-> <<>>, defer |-> TRUE]

LiveConfig == [DeferredConfig EXCEPT !.defer = FALSE]

\* The value of attribute name of element e, "" when it has none.
AttrValue(e, name) ==
  IF \E a \in e.attrs : a[1] = name
  THEN (CHOOSE a \in e.attrs : a[1] = name)[2]
  ELSE ""

\* The iframes of a piece of html as the panel holds them after insertion.
RECURSIVE FramesOf(_)
FramesOf(html) ==
  IF html = <<>> THEN <<>>
  ELSE LET e == Head(html)
       IN (IF e.tag = "iframe"
           THEN << [src |-> AttrValue(e, "src"),
                    dataSrc |-> AttrValue(e, "data-src"),
                    was |-> AttrValue(e, "data-src")] >>
           ELSE <<>>)
          \o FramesOf(Tail(html))

\* What a panel may hold: nothing, or a deferred embed and one that is not
\* deferred.
PanelContents(deferred, live) ==
  { <<>>, FramesOf(deferred \o live) }

InitLazy ==
  /\ \E deferred \in {renderEmbed(DeferredConfig)},
        live \in {renderEmbed(LiveConfig)} :
       \E contents \in {PanelContents(deferred, live)} :
         \E nTabs \in 1 .. MaxTabs :
           \E lazies \in SUBSET (0 .. (nTabs - 1)),
              markupActive \in SUBSET (0 .. (nTabs - 1)),
              content \in [0 .. (nTabs - 1) -> contents] :
             Construct(nTabs, FALSE, {}, lazies, markupActive, content)
  /\ EmbedIdle
  /\ SanitizeIdle
  /\ BannerIdle
  /\ MermaidIdle
  /\ LandingIdle
  /\ IdIdle
  /\ DateIdle
  /\ RssIdle
  /\ FileIdle
  /\ RenderIdle
  /\ StagedIdle

SpecLazy == InitLazy /\ [][Next]_vars

\* C19: a deferred embed is loaded exactly at its panel's first activation:
\* renderEmbed with defer set emits the validated URL as data-src and never
\* as src; while its lazy panel has never been active the frame has no live
\* src; once the lazy panel is marked lazy-loaded (by activation or as the
\* initially active panel) every frame in it has src set to its former
\* data-src and no data-src left.
C19_DeferredLoadedAtActivation ==
  \A i \in Tabs : \A k \in DOMAIN r[i].frames :
    LET f == r[i].frames[k]
    IN /\ f.was # "" => f.was = DeferredConfig.url.value
       \* outside a lazy panel the frame is as renderEmbed emitted it
       /\ (f.was # "" /\ ~r[i].lazy) => (f.src = "" /\ f.dataSrc = f.was)
       /\ (f.was # "" /\ r[i].lazy) =>
            /\ i \notin everActive => f.src = ""
            /\ r[i].lazyLoaded => f.src = f.was /\ f.dataSrc = ""

-----------------------------------------------------------------------------
(* ContentRenderer.makeCssSafeId *)

MaxIdLen == 3

IdChars == {"a", "Z", "5", "-", "_", "=", "/", " "}

RECURSIVE IdStrings(_)
IdStrings(k) ==
  IF k = 0 THEN {""}
  ELSE LET shorter == IdStrings(k - 1)
       IN shorter \cup {s \o ch : s \in shorter, ch \in IdChars}

\* Date.now() as the string the concatenation of lines 872 and 884 makes of it.
Timestamps == {"0", "1762214400000"}

IdSafeChars == LowerChars \o UpperChars \o DigitChars \o "_-"

\* str.replace(/[^a-zA-Z0-9_-]/g, '-'), line 875.
RECURSIVE ReplaceUnsafe(_)
ReplaceUnsafe(s) ==
  IF s = "" THEN ""
  ELSE (IF InChars(CharAt(s, 1), IdSafeChars) THEN CharAt(s, 1) ELSE "-")
       \o ReplaceUnsafe(From(s, 2))

\* safeId.replace(/-+/g, '-'), line 881.
RECURSIVE CollapseHyphens(_)
CollapseHyphens(s) ==
  IF Len(s) < 2 THEN s
  ELSE IF CharAt(s, 1) = "-" /\ CharAt(s, 2) = "-"
       THEN CollapseHyphens(From(s, 2))
       ELSE CharAt(s, 1) \o CollapseHyphens(From(s, 2))

\* safeId.replace(/^-+|-+$/g, ''), line 883.
RECURSIVE TrimHyphens(_)
TrimHyphens(s) ==
  IF s = "" THEN ""
  ELSE IF CharAt(s, 1) = "-" THEN TrimHyphens(From(s, 2))
  ELSE IF CharAt(s, Len(s)) = "-" THEN TrimHyphens(SubSeq(s, 1, Len(s) - 1))
  ELSE s

\* makeCssSafeId(str), lines 871-885; now is what Date.now() returns.
makeCssSafeId(str, now) ==
  IF str = "" THEN "mermaid-" \o now
  ELSE
    LET replaced == ReplaceUnsafe(str)
        prefixed == IF InChars(CharAt(replaced, 1), DigitChars)
                    THEN "m-" \o replaced ELSE replaced
        safeId == TrimHyphens(CollapseHyphens(prefixed))
    IN IF safeId = "" THEN "mermaid-" \o now ELSE safeId

InitId ==
  /\ idInput \in IdStrings(MaxIdLen)
  /\ idOutput = [made |-> FALSE, value |-> ""]
  /\ idAgain = [made |-> FALSE, value |-> ""]
  /\ TabIdle
  /\ EmbedIdle
  /\ SanitizeIdle
  /\ BannerIdle
  /\ MermaidIdle
  /\ LandingIdle
  /\ DateIdle
  /\ RssIdle
  /\ FileIdle
  /\ RenderIdle
  /\ StagedIdle

\* prepareMermaid, line 626: const safeId = this.makeCssSafeId(elementId).
MakeId ==
  /\ ~idOutput.made
  /\ \E now \in Timestamps :
       idOutput' = [made |-> TRUE, value |-> makeCssSafeId(idInput, now)]
  /\ UNCHANGED <<idInput, idAgain>>
  /\ UNCHANGED nonIdVars

\* The identifier written to data-mermaid-id and id (lines 630-632) handed
\* to makeCssSafeId once more.
MakeIdAgain ==
  /\ idOutput.made /\ ~idAgain.made
  /\ \E now \in Timestamps :
       idAgain' = [made |-> TRUE, value |-> makeCssSafeId(idOutput.value, now)]
  /\ UNCHANGED <<idInput, idOutput>>
  /\ UNCHANGED nonIdVars

NextId ==
  \/ MakeId
  \/ MakeIdAgain

SpecId == InitId /\ [][NextId]_vars

\* id matches ^[A-Za-z_-][A-Za-z0-9_-]*$.
MatchesCssIdent(id) ==
  /\ id # ""
  /\ InChars(CharAt(id, 1), LowerChars \o UpperChars \o "_-")
  /\ \A k \in 1 .. Len(id) : InChars(CharAt(id, k), IdSafeChars)

\* C20: for every non-empty caller-supplied element id the identifier
\* makeCssSafeId returns matches ^[A-Za-z_-][A-Za-z0-9_-]*$ (so it does not
\* begin with a digit), has no two consecutive dashes and has no leading or
\* trailing dash.
C20_CssSafeId ==
  (idOutput.made /\ idInput # "") =>
    /\ MatchesCssIdent(idOutput.value)
    /\ \A k \in 1 .. (Len(idOutput.value) - 1) :
         SubSeq(idOutput.value, k, k + 1) # "--"
    /\ CharAt(idOutput.value, 1) # "-"
    /\ CharAt(idOutput.value, Len(idOutput.value)) # "-"

\* makeCssSafeId returns the time-based default for str.
FallsBack(str) ==
  \A now \in Timestamps : makeCssSafeId(str, now) = "mermaid-" \o now

\* C21: identifier generation is idempotent: for every element id on which
\* makeCssSafeId does not fall back to the time-based default,
\* makeCssSafeId(makeCssSafeId(id)) equals makeCssSafeId(id).
C21_IdIdempotent ==
  (idAgain.made /\ ~FallsBack(idInput)) => idAgain.value = idOutput.value

-----------------------------------------------------------------------------
(* ContentRenderer.formatRssDate.  A Date is [kind, time, date, month, year]:
   time is getTime(), date, month and year are what getDate(), getMonth()
   and getFullYear() return.  A time of t ms is written [min, ms] with
   t = min * 60000 + ms and 0 <= ms < 60000, since t itself is beyond the
   integers the checker computes with. *)

MaxAgeDays == 31

MsPerMinute == 60000
MinutesPerHour == 60
HoursPerDay == 24

NowMs == [min |-> 29370240, ms |-> 12345]

\* The ages of the dates formatted: around every whole day up to
\* MaxAgeDays, and one day in the future.
Ages ==
  {[min |-> d * (HoursPerDay * MinutesPerHour) + h * MinutesPerHour + m,
    ms |-> ms] :
     d \in -1 .. MaxAgeDays, h \in {0, 1, 23}, m \in {0, 30, 59},
     ms \in {0, 30000, 59999}}

\* The time that lies age before t.
Before(t, age) ==
  [min |-> t.min - age.min - (IF t.ms < age.ms THEN 1 ELSE 0),
   ms |-> (t.ms - age.ms) % MsPerMinute]

Calendars == {[date |-> 5, month |-> 0, year |-> 2024],
              [date |-> 31, month |-> 11, year |-> 1999]}

DateFormats == {"relative", "DD/MM/YYYY", "MM/DD/YYYY"}

\* n.toString().padStart(2, '0') for n >= 0.
PadStart2(k) == IF k < 10 THEN "0" \o ToString(k) ELSE ToString(k)

\* Lines 1062-1064.
DiffMins(now, time) == (now.min - time.min) + ((now.ms - time.ms) \div MsPerMinute)
DiffHoursRounded(diffMins) == (diffMins + 30) \div MinutesPerHour
DiffHours(diffMins) == diffMins \div MinutesPerHour
DiffDays(diffHours) == diffHours \div HoursPerDay

\* Lines 1074-1081.
AbsoluteDate(date, format) ==
  LET day == PadStart2(date.date)
      month == PadStart2(date.month + 1)
      year == ToString(date.year)
  IN IF format = "DD/MM/YYYY"
     THEN day \o "/" \o month \o "/" \o year
     ELSE month \o "/" \o day \o "/" \o year

\* formatRssDate(date, format), lines 1054-1082, called at time now.
formatRssDate(date, format, now) ==
  IF date.kind # "date" THEN ""
  ELSE
    LET diffMins == DiffMins(now, date.time)
        diffHours == DiffHours(diffMins)
        diffDays == DiffDays(diffHours)
    IN IF format = "relative" /\ diffMins < 1 THEN "Just now"
       ELSE IF format = "relative" /\ diffMins < 60
         THEN ToString(diffMins) \o "m ago"
       ELSE IF format = "relative" /\ diffHours < 24
         THEN ToString(diffHours) \o "h ago"
       ELSE IF format = "relative" /\ diffDays = 1 THEN "Yesterday"
       ELSE IF format = "relative" /\ diffDays < 7
         THEN ToString(diffDays) \o "d ago"
       ELSE IF format = "relative" /\ diffDays < 30
         THEN ToString(diffDays \div 7) \o "w ago"
       ELSE AbsoluteDate(date, format)

InitDate ==
  /\ rssNow = NowMs
  /\ \/ \E age \in Ages, cal \in Calendars :
          rssDate = [kind |-> "date", time |-> Before(NowMs, age), date |-> cal.date,
                     month |-> cal.month, year |-> cal.year]
     \/ \E kind \in {"null", "string", "invalid-date"} :
          rssDate = [kind |-> kind, time |-> [min |-> 0, ms |-> 0], date |-> 0, month |-> 0, year |-> 0]
  /\ rssFormat \in DateFormats
  /\ rssText = [made |-> FALSE, text |-> ""]
  /\ TabIdle
  /\ EmbedIdle
  /\ SanitizeIdle
  /\ BannerIdle
  /\ MermaidIdle
  /\ LandingIdle
  /\ IdIdle
  /\ RssIdle
  /\ FileIdle
  /\ RenderIdle
  /\ StagedIdle

FormatRssDate ==
  /\ ~rssText.made
  /\ rssText' = [made |-> TRUE, text |-> formatRssDate(rssDate, rssFormat, rssNow)]
  /\ UNCHANGED <<rssDate, rssNow, rssFormat>>
  /\ UNCHANGED nonDateVars

NextDate == FormatRssDate

SpecDate == InitDate /\ [][NextDate]_vars

\* C22: in relative mode the age of a valid date, in whole minutes m with
\* h = floor(m/60) and d = floor(h/24), is shown as "Just now" when m < 1,
\* "{m}m ago" when m < 60, "{h}h ago" when h < 24, "Yesterday" when d = 1,
\* "{d}d ago" when d < 7, "{floor(d/7)}w ago" when d < 30, and in the
\* absolute format otherwise.
C22_RelativeAge ==
  (rssText.made /\ rssDate.kind = "date" /\ rssFormat = "relative") =>
    LET wholeMinutes == rssNow.min - rssDate.time.min
        m == IF rssNow.ms < rssDate.time.ms THEN wholeMinutes - 1
             ELSE wholeMinutes
        h == (m - (m % 60)) \div 60
        d == (h - (h % 24)) \div 24
    IN rssText.text =
         (CASE m < 1 -> "Just now"
            [] m >= 1 /\ m < 60 -> ToString(m) \o "m ago"
            [] m >= 60 /\ h < 24 -> ToString(h) \o "h ago"
            [] h >= 24 /\ d = 1 -> "Yesterday"
            [] d >= 2 /\ d < 7 -> ToString(d) \o "d ago"
            [] d >= 7 /\ d < 30 -> ToString((d - (d % 7)) \div 7) \o "w ago"
            [] OTHER -> PadStart2(rssDate.month + 1) \o "/"
                          \o PadStart2(rssDate.date) \o "/" \o ToString(rssDate.year))

\* A date 90 minutes old has been shown as "1h ago".
C22_Witness ==
  /\ rssText.made /\ rssDate.kind = "date" /\ rssFormat = "relative"
  /\ rssDate.time = Before(rssNow, [min |-> 90, ms |-> 0])
  /\ rssText.text = "1h ago"

-----------------------------------------------------------------------------
(* ContentRenderer.renderRss.  The html is the sequence of its elements, as
   for renderEmbed. *)

MaxDescLen == 4
MaxLimit == 3

DescChars == {"a", " ", "&"}

RECURSIVE Descriptions(_)
Descriptions(k) ==
  IF k = 0 THEN {""}
  ELSE LET shorter == Descriptions(k - 1)
       IN shorter \cup {d \o ch : d \in shorter, ch \in DescChars}

\* String.prototype.trim, on text whose only white space is the space.
RECURSIVE Trim(_)
Trim(text) ==
  IF text = "" THEN ""
  ELSE IF CharAt(text, 1) = " " THEN Trim(From(text, 2))
  ELSE IF CharAt(text, Len(text)) = " " THEN Trim(SubSeq(text, 1, Len(text) - 1))
  ELSE text

\* truncateRssText(text, limit), lines 1087-1090; substring(0, limit) with a
\* limit below 0 is substring(0, 0).
truncateRssTextNoEllipsis(text, limit) ==
  IF text = "" \/ Len(text) <= limit THEN text
  ELSE Trim(SubSeq(text, 1, (IF limit < 0 THEN 0 ELSE limit)))
truncateRssText(text, limit) ==
  IF text = "" \/ Len(text) <= limit THEN text
  ELSE Trim(SubSeq(text, 1, (IF limit < 0 THEN 0 ELSE limit))) \o "..."

\* The separator of line 977, the character U+2022 between two spaces.
MetaSeparator == " * "

\* The elements both renderRssList and renderRssCards make of the
\* description, lines 980-982 and 1012-1014.
RssDescription(item, cfg) ==
  IF cfg.showDescription /\ item.description # ""
  THEN << Element("div", "picanvas-rss-description",
                  encodeHtml(truncateRssText(item.description, cfg.descriptionLimit)),
                  {}) >>
  ELSE <<>>

\* Lines 971-973, 1006-1008 and 1036-1038.
RssDate(item, cfg, now) ==
  IF cfg.showDate
  THEN << Element("span", "picanvas-rss-date",
                  formatRssDate(item.publishedDate, cfg.dateFormat, now), {}) >>
  ELSE <<>>

\* Lines 987-989, 1019-1021 and 1042-1044.
RssTitle(item, cfg) ==
  << Element("a", "picanvas-rss-title", encodeHtml(item.title),
             {<<"href", encodeHtml(item.link)>>, <<"target", cfg.linkTarget>>,
              <<"rel", "noopener noreferrer">>}) >>

\* One item of renderRssList, lines 965-995.
RssListItem(item, cfg, now) ==
  LET thumbnail == IF cfg.showImage /\ item.thumbnail # ""
                   THEN << Element("div", "picanvas-rss-thumbnail", "", {}),
                           Element("img", "", "",
                                   {<<"src", encodeHtml(item.thumbnail)>>,
                                    <<"alt", "">>, <<"loading", "lazy">>}) >>
                   ELSE <<>>
      date == RssDate(item, cfg, now)
      author == IF cfg.showAuthor /\ item.author # ""
                THEN << Element("span", "picanvas-rss-author",
                                encodeHtml(item.author), {}) >>
                ELSE <<>>
      meta == IF date # <<>> \/ author # <<>>
              THEN << Element("div", "picanvas-rss-meta",
                              IF date # <<>> /\ author # <<>>
                              THEN MetaSeparator ELSE "", {}) >>
                   \o date \o author
              ELSE <<>>
  IN << Element("article", "picanvas-rss-item", "", {}) >> \o thumbnail
     \o << Element("div", "picanvas-rss-content", "", {}) >>
     \o RssTitle(item, cfg) \o meta \o RssDescription(item, cfg)

\* One item of renderRssCards, lines 1001-1028.
RssCard(item, cfg, now) ==
  LET thumbnail == IF cfg.showImage /\ item.thumbnail # ""
                   THEN << Element("div", "picanvas-rss-card-image", "", {}),
                           Element("img", "", "",
                                   {<<"src", encodeHtml(item.thumbnail)>>,
                                    <<"alt", "">>, <<"loading", "lazy">>}) >>
                   ELSE << Element("div", "picanvas-rss-card-image picanvas-rss-no-image",
                                   "", {}) >>
  IN << Element("article", "picanvas-rss-card", "", {}) >> \o thumbnail
     \o << Element("div", "picanvas-rss-card-content", "", {}) >>
     \o RssTitle(item, cfg) \o RssDate(item, cfg, now)
     \o RssDescription(item, cfg)

\* One item of renderRssCompact, lines 1034-1048.
RssCompactItem(item, cfg, now) ==
  << Element("article", "picanvas-rss-compact-item", "", {}) >>
  \o RssTitle(item, cfg) \o RssDate(item, cfg, now)

RECURSIVE RssItemsHtml(_, _, _)
RssItemsHtml(items, cfg, now) ==
  IF items = <<>> THEN <<>>
  ELSE (CASE cfg.layout = "cards" -> RssCard(Head(items), cfg, now)
          [] cfg.layout = "compact" -> RssCompactItem(Head(items), cfg, now)
          [] OTHER -> RssListItem(Head(items), cfg, now))
       \o RssItemsHtml(Tail(items), cfg, now)

\* renderRss(items, config), lines 921-957.  Reading config.maxItems of an
\* undefined config throws a TypeError.
renderRss(items, cfg, now) ==
  IF items.kind # "array" \/ items.list = <<>>
  THEN [threw |-> FALSE,
        html |-> << Element("div", "picanvas-rss-container picanvas-rss-empty", "", {}),
                    Element("div", "picanvas-rss-empty-text", "No items to display", {}) >>]
  ELSE IF cfg.kind # "object"
  THEN [threw |-> TRUE, html |-> <<>>]
  ELSE
    LET displayItems == IF cfg.maxItems # 0
                        THEN SubSeq(items.list, 1, Min(cfg.maxItems, Len(items.list)))
                        ELSE items.list
        grid == IF cfg.layout = "cards"
                THEN << Element("div", "picanvas-rss-cards-grid", "", {}) >>
                ELSE <<>>
    IN [threw |-> FALSE,
        html |-> << Element("div", "picanvas-rss-container picanvas-rss-" \o cfg.layout,
                            "", {}) >>
                 \o grid \o RssItemsHtml(displayItems, cfg, now)]

(* The feed inputs *)

LongTitle == "Q&A: <b>bold</b> news"
LongLink == "https://x.io/feed?a=1&b=2"
LongAuthor == "Tom & Jerry"

FeedItem(description) ==
  [title |-> LongTitle, link |-> LongLink, description |-> description,
   publishedDate |-> [kind |-> "date", time |-> Before(NowMs, [min |-> 90, ms |-> 0]),
                      date |-> 5, month |-> 0, year |-> 2024],
   author |-> LongAuthor, thumbnail |-> ""]

InitRss ==
  /\ \/ \E description \in Descriptions(MaxDescLen) :
          rssItems = [kind |-> "array",
                      list |-> << FeedItem(description), FeedItem(description) >>]
     \/ rssItems \in {[kind |-> "undefined", list |-> <<>>],
                      [kind |-> "null", list |-> <<>>],
                      [kind |-> "array", list |-> <<>>]}
  /\ \/ rssConfig \in [kind : {"object"}, layout : {"list", "cards", "compact"},
                       showDate : {FALSE}, showDescription : BOOLEAN,
                       showImage : {FALSE}, showAuthor : {TRUE},
                       descriptionLimit : 0 .. MaxLimit,
                       dateFormat : {"relative"}, linkTarget : {"_blank"},
                       maxItems : {0, 1}]
     \/ rssConfig = [kind |-> "undefined"]
  /\ rssResult = [made |-> FALSE, threw |-> FALSE, html |-> <<>>]
  /\ TabIdle
  /\ EmbedIdle
  /\ SanitizeIdle
  /\ BannerIdle
  /\ MermaidIdle
  /\ LandingIdle
  /\ IdIdle
  /\ DateIdle
  /\ FileIdle
  /\ RenderIdle
  /\ StagedIdle

RenderRss ==
  /\ ~rssResult.made
  /\ \E res \in {renderRss(rssItems, rssConfig, NowMs)} :
       rssResult' = [made |-> TRUE, threw |-> res.threw, html |-> res.html]
  /\ UNCHANGED <<rssItems, rssConfig>>
  /\ UNCHANGED nonRssVars

NextRss == RenderRss

SpecRss == InitRss /\ [][NextRss]_vars

\* The elements of the result with the given class.
RssElements(class) ==
  {rssResult.html[k] : k \in {j \in DOMAIN rssResult.html :
                                 rssResult.html[j].class = class}}

\* text holds an ampersand that does not begin one of the five entities
\* encodeHtml writes.
HasPartialEntity(text) ==
  \E k \in 1 .. Len(text) :
    /\ CharAt(text, k) = "&"
    /\ \A e \in {"&amp;", "&lt;", "&gt;", "&quot;", "&#39;"} :
         \/ k + Len(e) - 1 > Len(text)
         \/ SubSeq(text, k, k + Len(e) - 1) # e

\* C23: truncation works on the raw description before HTML-escaping: a
\* description no longer than descriptionLimit is shown unchanged (escaped),
\* a longer one is cut to its first descriptionLimit characters, trimmed and
\* followed by "..."; the rendered description holds no partial HTML entity;
\* title, author and link are never truncated.
C23_TruncateBeforeEscape ==
  (rssResult.made /\ ~rssResult.threw /\ rssItems.list # <<>>) =>
    LET item == rssItems.list[1]
        limit == rssConfig.descriptionLimit
    IN /\ \A e \in RssElements("picanvas-rss-description") :
            /\ Len(item.description) <= limit =>
                 e.text = encodeHtml(item.description)
            /\ Len(item.description) > limit =>
                 e.text = encodeHtml(Trim(SubSeq(item.description, 1, limit))) \o "..."
            /\ ~HasPartialEntity(e.text)
       /\ (rssConfig.showDescription /\ item.description # ""
             /\ rssConfig.layout # "compact") =>
            RssElements("picanvas-rss-description") # {}
       /\ \A e \in RssElements("picanvas-rss-title") :
            /\ e.text = encodeHtml(LongTitle)
            /\ <<"href", encodeHtml(LongLink)>> \in e.attrs
       /\ RssElements("picanvas-rss-title") # {}
       /\ \A e \in RssElements("picanvas-rss-author") :
            e.text = encodeHtml(LongAuthor)

\* A description of four characters whose third is an ampersand has been cut
\* at limit 3 and rendered with the whole entity.
C23_Witness ==
  /\ rssResult.made /\ ~rssResult.threw /\ rssItems.list # <<>>
  /\ rssItems.list[1].description = "a &a"
  /\ rssConfig.descriptionLimit = 3
  /\ \E e \in RssElements("picanvas-rss-description") : e.text = "a &amp;..."

-----------------------------------------------------------------------------
(* External files: detectFileType and renderFileContent *)

MaxExtPieces == 2

\* fileUrl.split('?')[0].toLowerCase(), line 1104.
CleanUrlKeepQuery(fileUrl) == ToLowerCase(fileUrl)
CleanUrl(fileUrl) ==
  ToLowerCase(SubSeq(fileUrl, 1, IndexOfAny(fileUrl, "?", 1) - 1))

\* detectFileType(fileUrl), lines 1099-1112.
detectFileType(fileUrl) ==
  IF fileUrl.type # "string" \/ fileUrl.value = "" THEN "unknown"
  ELSE LET cleanUrl == CleanUrl(fileUrl.value)
       IN IF EndsWith(cleanUrl, ".html") \/ EndsWith(cleanUrl, ".htm") THEN "html"
          ELSE IF EndsWith(cleanUrl, ".md") \/ EndsWith(cleanUrl, ".markdown")
            THEN "markdown"
          ELSE "unknown"

\* renderFileContent(content, fileType), lines 1120-1129: the pipeline taken
\* and its html.
renderFileContent(content, fileType, throws) ==
  IF IsBlank(content) THEN [pipeline |-> "none", html |-> <<>>]
  ELSE IF fileType = "markdown"
    THEN [pipeline |-> "markdown", html |-> renderMarkdown(content, throws)]
  ELSE [pipeline |-> "html", html |-> renderHtml(content, throws)]

\* The message shown for a file of unknown type (FileTypeUnsupportedMessage).
UnsupportedMessage == << [tag |-> "div", attrs |-> {"class"}] >>

\* The caller of detectFileType and renderFileContent: renderFileContent
\* takes 'html' or 'markdown' only, the unknown type gets the message.
renderExternalFile(url, content, throws) ==
  LET fileType == detectFileType(url)
  IN IF fileType = "unknown"
     THEN [fileType |-> fileType, pipeline |-> "unsupported",
           html |-> UnsupportedMessage]
     ELSE LET res == renderFileContent(content, fileType, throws)
          IN [fileType |-> fileType, pipeline |-> res.pipeline, html |-> res.html]

(* The file inputs *)

UrlBases == {"", "/sites/a/Doc", "https://x.io/v1.2/Read"}
ExtPieces == {".md", ".MD", ".markdown", ".html", ".Htm", ".txt", "x", "md"}
UrlQueries == {"", "?v=1", "?f=a.md", "?f=a.html"}

RECURSIVE Suffixes(_)
Suffixes(k) ==
  IF k = 0 THEN {""}
  ELSE LET shorter == Suffixes(k - 1)
       IN shorter \cup {e \o p : e \in shorter, p \in ExtPieces}

FileUrls ==
  {[type |-> "string", value |-> b \o e \o q] :
     b \in UrlBases, e \in Suffixes(MaxExtPieces), q \in UrlQueries}
  \cup {[type |-> "undefined", value |-> ""], [type |-> "number", value |-> "7"]}

FileContents ==
  { [type |-> "undefined", doc |-> <<>>],
    [type |-> "string", doc |-> <<>>],
    [type |-> "string", doc |-> << [tag |-> "div", attrs |-> {"class"}] >>],
    [type |-> "string", doc |-> << [tag |-> "script", attrs |-> {}] >>] }

InitFile ==
  /\ fileSource \in FileUrls
  /\ fileContent \in FileContents
  /\ fileThrows \in BOOLEAN
  /\ fileResult = [made |-> FALSE, fileType |-> "", pipeline |-> "", html |-> <<>>]
  /\ TabIdle
  /\ EmbedIdle
  /\ SanitizeIdle
  /\ BannerIdle
  /\ MermaidIdle
  /\ LandingIdle
  /\ IdIdle
  /\ DateIdle
  /\ RssIdle
  /\ RenderIdle
  /\ StagedIdle

RenderExternalFile ==
  /\ ~fileResult.made
  /\ \E res \in {renderExternalFile(fileSource, fileContent, fileThrows)} :
       fileResult' = [made |-> TRUE, fileType |-> res.fileType,
                      pipeline |-> res.pipeline, html |-> res.html]
  /\ UNCHANGED <<fileSource, fileContent, fileThrows>>
  /\ UNCHANGED nonFileVars

NextFile == RenderExternalFile

SpecFile == InitFile /\ [][NextFile]_vars

\* The URL up to its query string ends, whatever the case, in one of exts.
PathEndsIn(exts) ==
  /\ fileSource.type = "string"
  /\ \E k \in 0 .. Len(fileSource.value) :
       /\ \A j \in 1 .. k : CharAt(fileSource.value, j) # "?"
       /\ k = Len(fileSource.value) \/ CharAt(fileSource.value, k + 1) = "?"
       /\ \E e \in exts :
            /\ Len(e) <= k
            /\ ToLowerCase(SubSeq(fileSource.value, k - Len(e) + 1, k)) = e

-----------------------------------------------------------------------------
(* The public render functions at their boundary.  An argument is given by
   its kind: "undefined", "null", "empty" (the empty string or array),
   "number" (a value that is no string) or "value"; cfg is "undefined",
   "null" or "object".  A call ends by returning html, classed as "empty",
   "error" (an error or empty-state fragment) or "content", or by throwing. *)

PayloadKinds == {"undefined", "null", "empty", "number", "value"}
ConfigKinds == {"undefined", "null", "object"}

Returned(kind) == [threw |-> FALSE, kind |-> kind]
Thrown == [threw |-> TRUE, kind |-> ""]

\* The string content of a payload kind, as renderMarkdown and the like take it.
ContentOf(payload) ==
  CASE payload = "value" -> [type |-> "string", doc |-> << [tag |-> "div", attrs |-> {"class"}] >>]
    [] payload = "empty" -> [type |-> "string", doc |-> <<>>]
    [] OTHER -> [type |-> payload, doc |-> <<>>]

\* What the html of renderMarkdown, renderHtml and renderLockTemplate is.
MarkupKind(html) ==
  IF html = <<>> THEN "empty"
  ELSE IF html = RenderError THEN "error" ELSE "content"

\* prepareMermaid(content, elementId), lines 617-644: html '' for a content
\* that is no non-empty string, the placeholder otherwise.
prepareMermaid(payload) ==
  IF payload # "value" THEN Returned("empty") ELSE Returned("content")

\* const { url, ... } = config, line 691: destructuring undefined or null
\* throws a TypeError; there is no try around it.
Destructure(cfg) == cfg \in {"undefined", "null"}

\* renderEmbed(config), lines 690-732, at its boundary.
renderEmbedCall(payload, cfg) ==
  IF Destructure(cfg) THEN Thrown
  ELSE
    LET url == CASE payload = "value" ->
                      [type |-> "string", value |-> "https://www.youtube.com/embed/x"]
                 [] payload = "empty" -> [type |-> "string", value |-> ""]
                 [] payload = "number" -> [type |-> "number", value |-> "42"]
                 [] OTHER -> [type |-> "undefined", value |-> ""]
        html == renderEmbed([url |-> url, height |-> "400px",
                             additionalDomains |-> <<>>, defer |-> FALSE])
    IN IF html[1].class = "picanvas-render-error" THEN Returned("error")
       ELSE Returned("content")

\* renderRss(items, config), lines 921-957, at its boundary.
renderRssCall(payload, cfg) ==
  LET items == CASE payload = "value" ->
                      [kind |-> "array", list |-> << FeedItem("a &a") >>]
                 [] payload = "empty" -> [kind |-> "array", list |-> <<>>]
                 [] OTHER -> [kind |-> payload, list |-> <<>>]
      rssCfg == IF cfg = "object"
                THEN [kind |-> "object", layout |-> "list", showDate |-> TRUE,
                      showDescription |-> TRUE, showImage |-> FALSE,
                      showAuthor |-> TRUE, descriptionLimit |-> 3,
                      dateFormat |-> "relative", linkTarget |-> "_blank",
                      maxItems |-> 0]
                ELSE [kind |-> cfg]
      res == renderRss(items, rssCfg, NowMs)
  IN IF res.threw THEN Thrown
     ELSE IF res.html[1].class = "picanvas-rss-container picanvas-rss-empty"
       THEN Returned("error")
     ELSE Returned("content")

\* renderLanding(config = {}), lines 1217-1229: the default applies to
\* undefined only, destructuring null throws a TypeError.
renderLanding(cfg) ==
  IF cfg = "null" THEN Thrown ELSE Returned("content")

\* One call of a public render function.
RenderCallOutcome(call) ==
  CASE call.fn = "renderMarkdown" ->
         Returned(MarkupKind(renderMarkdown(ContentOf(call.payload), call.throws)))
    [] call.fn = "renderHtml" ->
         Returned(MarkupKind(renderHtml(ContentOf(call.payload), call.throws)))
    [] call.fn = "renderLockTemplate" ->
         Returned(MarkupKind(renderLockTemplate(ContentOf(call.payload), call.throws)))
    [] call.fn = "renderFileContent" ->
         Returned(MarkupKind(renderFileContent(ContentOf(call.payload), "html",
                                               call.throws).html))
    [] call.fn = "prepareMermaid" -> prepareMermaid(call.payload)
    [] call.fn = "renderEmbed" -> renderEmbedCall(call.payload, call.cfg)
    [] call.fn = "renderRss" -> renderRssCall(call.payload, call.cfg)
    [] OTHER -> renderLanding(call.cfg)

MarkupFns == {"renderMarkdown", "renderHtml", "renderLockTemplate", "renderFileContent"}
ConfigFns == {"renderEmbed", "renderRss", "renderLanding"}
RenderFns == MarkupFns \cup {"prepareMermaid"} \cup ConfigFns

\* The arguments a function has: the others stay at their first value.
Applicable(call) ==
  /\ call.fn \notin ConfigFns => call.cfg = "undefined"
  /\ call.fn \notin MarkupFns => ~call.throws
  /\ call.fn = "renderLanding" => call.payload = "undefined"
  /\ call.fn = "renderRss" => call.payload # "number"

InitRender ==
  /\ renderCall \in {call \in [fn : RenderFns, payload : PayloadKinds,
                               cfg : ConfigKinds, throws : BOOLEAN] :
                       Applicable(call)}
  /\ renderOutcome = [made |-> FALSE, threw |-> FALSE, kind |-> ""]
  /\ TabIdle
  /\ EmbedIdle
  /\ SanitizeIdle
  /\ BannerIdle
  /\ MermaidIdle
  /\ LandingIdle
  /\ IdIdle
  /\ DateIdle
  /\ RssIdle
  /\ FileIdle
  /\ StagedIdle

RenderCall ==
  /\ ~renderOutcome.made
  /\ \E res \in {RenderCallOutcome(renderCall)} :
       renderOutcome' = [made |-> TRUE, threw |-> res.threw, kind |-> res.kind]
  /\ UNCHANGED renderCall
  /\ UNCHANGED nonRenderVars

NextRender == RenderCall

SpecRender == InitRender /\ [][NextRender]_vars

\* C25: no public render function throws past its boundary: for an empty,
\* missing or non-string payload and for a missing item list or config
\* object the call returns, with html that is empty or an error or
\* empty-state fragment where a payload or item list was missing or empty;
\* an exception raised inside is turned into an error fragment.
C25_NeverThrows ==
  renderOutcome.made =>
    /\ ~renderOutcome.threw
    /\ (/\ renderCall.payload # "value"
        /\ \/ renderCall.fn \in MarkupFns \cup {"prepareMermaid"}
           \/ renderCall.fn \in {"renderEmbed", "renderRss"}
                /\ renderCall.cfg = "object") =>
         renderOutcome.kind \in {"empty", "error"}
    /\ (renderCall.throws /\ renderCall.payload = "value") =>
         renderOutcome.kind = "error"
-----------------------------------------------------------------------------
(***************************************************************************)
(* SpecPasses: the tab set together with the timers that run corrective    *)
(* passes: the staged retries set at construction (lines 255-276) and the  *)
(* 50 ms timer every activation sets (lines 472-534).  Timers that are due *)
(* fire: the specification is fair to both.                                *)
(***************************************************************************)

\* Lines 260, 266 and 272: the delays of the three retries.
StagedDelays == <<100, 500, 1500>>

\* r.each(function() { fixBannerWebparts(a(this)); }): a pass over every
\* panel of the tab set, at the given delay after construction.
StagedPass(delay) == [delay |-> delay, panels |-> Tabs]

\* Lines 255-276 at construction: the immediate pass has run, the three
\* timers are set.  The tab sets: no placeholder, the last tab a placeholder,
\* or the first panel lazy.
InitPasses ==
  /\ \E nTabs \in 1 .. MaxTabs :
       \E placeholders \in {{}, {nTabs - 1}}, lazies \in {{}, {0}} :
         /\ placeholders = {} \/ lazies = {}
         /\ Construct(nTabs, FALSE, placeholders, lazies, {},
                      NoContent(nTabs))
         /\ stagedTimers = StagedDelays
         /\ stagedRan = <<[delay |-> 0, panels |-> 0 .. (nTabs - 1)]>>
  /\ EmbedIdle
  /\ SanitizeIdle
  /\ BannerIdle
  /\ MermaidIdle
  /\ LandingIdle
  /\ IdIdle
  /\ DateIdle
  /\ RssIdle
  /\ FileIdle
  /\ RenderIdle

\* One of the timers of lines 260-276 fires; set together, they fire in the
\* order of their delays.
StagedTimerFire ==
  /\ stagedTimers # <<>>
  /\ stagedTimers' = Tail(stagedTimers)
  /\ stagedRan' = Append(stagedRan, StagedPass(Head(stagedTimers)))
  /\ last' = [op |-> "staged", idx |-> -1, ret |-> "none"]
  /\ emitted' = <<>>
  /\ pressed' = NoKey
  /\ UNCHANGED <<n, isVertical, c, r, u, focus, firstLazy, postTimers,
                 styleObservers, lazyCount, everActive>>
  /\ UNCHANGED <<embedVars, sanitizeVars, bannerVars, mermaidVars,
                 landingVars, idVars, dateVars, rssVars, fileVars,
                 renderVars>>

NextPasses ==
  \/ Next
  \/ StagedTimerFire

SpecPasses ==
  /\ InitPasses
  /\ [][NextPasses]_vars
  /\ WF_vars(PostTimerFire)
  /\ WF_vars(StagedTimerFire)

\* The passes construction runs, in full.
AllStagedPasses ==
  <<StagedPass(0)>> \o [k \in DOMAIN StagedDelays |-> StagedPass(StagedDelays[k])]

\* C26: a successful activation sets exactly one 50 ms timer, for the panel
\* it made active, and that timer fires on that panel whatever was activated
\* in between; construction runs a pass over all panels at once and the
\* passes at 100, 500 and 1500 ms follow, in that order and no others.
C26_PassesRun ==
  /\ [][/\ (last'.op \in {"click", "key", "api"} /\ last'.ret = "true") =>
             postTimers' = Append(postTimers, u')
        /\ (last'.op \in {"click", "key", "api"} /\ last'.ret # "true") =>
             postTimers' = postTimers
        /\ last'.op = "timer50" =>
             /\ postTimers # <<>>
             /\ last'.idx = Head(postTimers)
             /\ postTimers' = Tail(postTimers)
        /\ last'.op \notin {"click", "key", "api", "timer50"} =>
             postTimers' = postTimers]_vars
  /\ \A p \in 0 .. (MaxTabs - 1) :
       (\E k \in DOMAIN postTimers : postTimers[k] = p)
         ~> (last.op = "timer50" /\ last.idx = p)
  /\ [](\E k \in 1 .. Len(AllStagedPasses) :
          stagedRan = SubSeq(AllStagedPasses, 1, k))
  /\ <>(stagedRan = AllStagedPasses)

\* The 50 ms pass runs on the panel of an earlier activation while another
\* panel is active and its own timer is still pending.
C26_Witness ==
  /\ last.op = "timer50"
  /\ last.idx # u
  /\ postTimers = <<u>>
  /\ Len(stagedRan) > 1


-----------------------------------------------------------------------------
(* Claims about the notifications of activateTab, checked under Spec *)

\* C27: a call of activateTab that returned true has delivered exactly one
\* tab-change notification, the last of the call's notifications, carrying
\* the index, the tab and the panel the call made active; whatever came
\* before it in the same call is a lazy-load notification; a call that
\* returned false has delivered nothing.
C27_OneTabChange ==
  /\ last.ret = "true" =>
       /\ emitted # <<>>
       /\ LET e == emitted[Len(emitted)]
          IN /\ e.type = "tab-change"
             /\ e.tabIndex = u /\ e.tab = u /\ e.panel = u
       /\ \A k \in 1 .. (Len(emitted) - 1) : emitted[k].type = "lazy-load"
  /\ last.ret = "false" => emitted = <<>>

\* An activation of a lazy panel: two notifications from one call.
C27_Witness ==
  /\ last.ret = "true"
  /\ Len(emitted) = 2
  /\ emitted[1].type = "lazy-load"


\* C28: the tab at the active index is never a placeholder, in the state
\* construction leaves and in every state after it.
C28_ActiveNeverPlaceholder == ~c[u].placeholder

\* What does hold: no handler or timer moves the active index onto a
\* placeholder, so the active tab is not a placeholder once it was not.
C28_StaysOffPlaceholder ==
  [][~c[u].placeholder => ~c'[u'].placeholder]_vars


-----------------------------------------------------------------------------
(* The locked marker, checked under SpecBanner *)

\* C29: a container carrying picanvas-height-locked has its inline pixel
\* height in place, whatever corrective pass ran last, and its image has
\* finished loading.
C29_LockedMarkerTruthful ==
  \A i \in Layouts :
    layouts[i].locked =>
      /\ layouts[i].height = "px"
      /\ layouts[i].img = "complete"

\* What does hold: the marker is set only after the image has loaded.
C29_LockedAfterLoad ==
  \A i \in Layouts : layouts[i].locked => layouts[i].img = "complete"


-----------------------------------------------------------------------------
(* The payload of lazy-load, checked under Spec *)

\* C30: every lazy-load notification carries as tabIndex the index of the
\* panel it is delivered on, the one of the 0 ms timer of construction
\* included.
C30_LazyLoadIndex ==
  \A k \in DOMAIN emitted :
    emitted[k].type = "lazy-load" => emitted[k].tabIndex = emitted[k].panel

\* What does hold: the notifications activateTab itself delivers carry the
\* index of their panel.
C30_ActivationLazyLoadIndex ==
  last.ret = "true" =>
    \A k \in DOMAIN emitted :
      emitted[k].type = "lazy-load" => emitted[k].tabIndex = emitted[k].panel


=============================================================================
